---- MODULE Spec2Model ----
(***************************************************************************)
(* Model of the solo-levelling backend (src/src/utils/supabase/client.ts): *)
(* the Hono request handlers, the token and password helpers, and the      *)
(* key-value store they read and write.                                    *)
(*                                                                         *)
(* Strings are sequences of character codes.  JSON values are records      *)
(* [k, n, s] (kind, number, string/list) so that JavaScript's truthiness,  *)
(* `||` defaults and Number() conversions can be computed as the code      *)
(* computes them.                                                          *)
(***************************************************************************)
EXTENDS Integers, Sequences, FiniteSets, TLC

(***************************************************************************)
(* Bounds                                                                  *)
(***************************************************************************)
\* largest value of the clock (Date.now()) the model explores
MaxNow == 1
\* largest amount a transaction request carries
MaxAmount == 2
\* longest transaction list the model lets a user accumulate
MaxTxns == 2
\* largest xpLevel of the users of the large leaderboard store
MaxXp == 2
\* longest array the AI collaborator's answer holds
MaxAiLen == 6
\* largest completedToday the model lets a user reach
MaxDone == 2
\* number of onboarded users in the large leaderboard store
MaxBoard == 52

(***************************************************************************)
(* Characters                                                              *)
(***************************************************************************)
\* the separator of the token's plain text, `${userId}:${Date.now()}`
ChColon == 58
\* the padding sign of base64 (the alphabet itself is the sextets 0..63)
B64Pad == 64

(***************************************************************************)
(* JSON / JavaScript values                                                *)
(***************************************************************************)
Undef == [k |-> "undef", n |-> 0, s |-> <<>>]
Null == [k |-> "null", n |-> 0, s |-> <<>>]
Num(x) == [k |-> "num", n |-> x, s |-> <<>>]
Str(x) == [k |-> "str", n |-> 0, s |-> x]
Bool(b) == [k |-> "bool", n |-> IF b THEN 1 ELSE 0, s |-> <<>>]
List(l) == [k |-> "list", n |-> 0, s |-> l]
\* the number Infinity, which JSON.parse yields for a literal beyond the
\* range of a double (1e999)
Infinity == [k |-> "inf", n |-> 0, s |-> <<>>]

\* JavaScript truthiness (the `!x`, `x || d` and `if (x)` tests of the handlers)
Truthy(v) ==
  CASE v.k = "undef" -> FALSE
    [] v.k = "null" -> FALSE
    [] v.k = "num" -> v.n # 0
    [] v.k = "str" -> v.s # <<>>
    [] v.k = "bool" -> v.n = 1
    [] OTHER -> TRUE

\* x || d
OrElse(v, d) == IF Truthy(v) THEN v ELSE d

\* Number(x) || 0 on the values the model stores: a number stays, NaN
\* (undefined, a non-numeric string, a list) and 0 become 0
IsDigits(c) == Len(c) > 0 /\ \A i \in 1..Len(c) : c[i] \in 48..57
RECURSIVE ParseDigits(_)
ParseDigits(c) ==
  IF Len(c) = 0 THEN 0
  ELSE 10 * ParseDigits(SubSeq(c, 1, Len(c) - 1)) + (c[Len(c)] - 48)

NumberOr0(v) ==
  CASE v.k = "num" -> v.n
    [] v.k = "bool" -> v.n
    [] v.k = "str" -> IF IsDigits(v.s) THEN ParseDigits(v.s) ELSE 0
    [] v.k = "list" ->
         IF Len(v.s) # 1 THEN 0
         ELSE IF v.s[1].k = "num" THEN v.s[1].n
         ELSE IF v.s[1].k = "str" /\ IsDigits(v.s[1].s) THEN ParseDigits(v.s[1].s)
         ELSE 0
    [] OTHER -> 0

Min(a, b) == IF a <= b THEN a ELSE b

\* String.prototype.includes
Contains(text, sub) ==
  \E i \in 0..(Len(text) - Len(sub)) : SubSeq(text, i + 1, i + Len(sub)) = sub

\* String.prototype.toLowerCase on the ASCII letters
ToLowerCase(text) ==
  [i \in 1..Len(text) |-> IF text[i] \in 65..90 THEN text[i] + 32 ELSE text[i]]

\* Array.prototype.includes: an array parsed from a request is a fresh
\* object and is the same value as no stored element
Includes(l, v) == v.k # "list" /\ \E i \in 1..Len(l) : l[i] = v

Max(a, b) == IF a >= b THEN a ELSE b

\* decimal digits of a natural number, as characters
RECURSIVE Digits(_)
Digits(x) == IF x < 10 THEN <<48 + x>> ELSE Digits(x \div 10) \o <<48 + (x % 10)>>

\* `${v}` inside a key template; an array is rendered as its elements
\* joined with commas, null and undefined elements as the empty string
RECURSIVE TemplateOf(_)
TemplateOf(v) ==
  CASE v.k = "str" -> v.s
    [] v.k = "num" -> IF v.n >= 0 THEN Digits(v.n) ELSE <<45>> \o Digits(0 - v.n)
    [] v.k = "null" -> <<110, 117, 108, 108>>
    [] v.k = "list" ->
         IF Len(v.s) = 0 THEN <<>>
         ELSE LET head == IF v.s[1].k \in {"null", "undef"} THEN <<>>
                          ELSE TemplateOf(v.s[1])
              IN IF Len(v.s) = 1 THEN head
                 ELSE head \o <<44>> \o TemplateOf(List(Tail(v.s)))
    [] OTHER -> <<117, 110, 100, 101, 102>>

\* new Date().toISOString(): the clock rendered as a string
IsoString(t) == Str(<<84>> \o Digits(t))

(***************************************************************************)
(* btoa / atob                                                             *)
(***************************************************************************)
\* btoa throws InvalidCharacterError on a character outside Latin-1
BtoaThrows(b) == \E i \in 1..Len(b) : b[i] > 255

RECURSIVE Btoa(_)
Btoa(b) ==
  IF Len(b) = 0 THEN <<>>
  ELSE IF Len(b) = 1 THEN
    << b[1] \div 4, (b[1] % 4) * 16, B64Pad, B64Pad >>
  ELSE IF Len(b) = 2 THEN
    << b[1] \div 4, (b[1] % 4) * 16 + (b[2] \div 16), (b[2] % 16) * 4, B64Pad >>
  ELSE
    << b[1] \div 4, (b[1] % 4) * 16 + (b[2] \div 16),
       (b[2] % 16) * 4 + (b[3] \div 64), b[3] % 64 >>
      \o Btoa(SubSeq(b, 4, Len(b)))

\* forgiving-base64: up to two trailing '=' are dropped when the length is a
\* multiple of four
StripPad(t) ==
  IF Len(t) % 4 = 0 /\ Len(t) > 0 /\ t[Len(t)] = B64Pad
  THEN IF t[Len(t) - 1] = B64Pad THEN SubSeq(t, 1, Len(t) - 2)
       ELSE SubSeq(t, 1, Len(t) - 1)
  ELSE t

AtobThrows(t) ==
  LET u == StripPad(t) IN
    \/ Len(u) % 4 = 1
    \/ \E i \in 1..Len(u) : u[i] \notin 0..63

RECURSIVE B64Dec(_)
B64Dec(u) ==
  IF Len(u) < 2 THEN <<>>
  ELSE IF Len(u) = 2 THEN << u[1] * 4 + (u[2] \div 16) >>
  ELSE IF Len(u) = 3 THEN
    << u[1] * 4 + (u[2] \div 16), (u[2] % 16) * 16 + (u[3] \div 4) >>
  ELSE
    << u[1] * 4 + (u[2] \div 16), (u[2] % 16) * 16 + (u[3] \div 4),
       (u[3] % 4) * 64 + u[4] >>
      \o B64Dec(SubSeq(u, 5, Len(u)))

Atob(t) == B64Dec(StripPad(t))

\* decoded.split(':')[0]: the characters before the first ':'
RECURSIVE FirstField(_)
FirstField(d) ==
  IF Len(d) = 0 \/ d[1] = ChColon THEN <<>>
  ELSE <<d[1]>> \o FirstField(Tail(d))

(***************************************************************************)
(* Identity helpers                                                        *)
(***************************************************************************)
\* generateToken: btoa(`${userId}:${Date.now()}`)
TokenPlain(userId, t) == userId \o <<ChColon>> \o Digits(t)
GenerateTokenThrows(userId) == BtoaThrows(userId)
GenerateToken(userId, t) == Btoa(TokenPlain(userId, t))

\* verifyToken: atob, split(':'), first field; null when atob throws
DecodeToken(token) ==
  IF AtobThrows(token) THEN Null ELSE Str(FirstField(Atob(token)))

\* e-mails, passwords and names the requests of the model carry
EmA == <<97>>
EmB == <<98>>
\* "a:b", an e-mail that holds the token separator
EmAColonB == <<97, ChColon, 98>>
\* an e-mail that starts with a character outside Latin-1 (U+03C0)
EmPi == <<960, 97>>
PwP == <<112>>
PwQ == <<113>>
NameN == <<110>>

\* the tokens the requests of the model carry, decoded once
KnownTokens ==
  {GenerateToken(e, 0) : e \in {EmA, EmB, EmAColonB}}
    \cup {<<>>, <<65, 1, 2, 3>>, <<5>>, Btoa(<<ChColon, 48>>)}
VerifiedTokens == [t \in KnownTokens |-> DecodeToken(t)]

VerifyToken(token) ==
  IF token \in KnownTokens THEN VerifiedTokens[token] ELSE DecodeToken(token)

\* hashPassword: SHA-256 of the password, base64 encoded.  The digest is
\* modelled as the password behind a marker, so it is injective and never
\* equal to the clear text.
HashPasswordPlain(p) == p
HashPassword(p) == <<35>> \o p

\* c.req.header('Authorization')?.split(' ')[1]; a header is the sequence of
\* its space-separated parts, NoHeader when the request carries none
NoHeader == <<>>
AccessToken(header) ==
  IF Len(header) < 2 THEN Undef ELSE Str(header[2])

\* the header the client builds: `Bearer ${token}`
Bearer(tok) == << <<1>>, tok >>

\* a header with a token of the server's format for the identity e
TokenHeader(e) == Bearer(GenerateToken(e, 0))

\* headers that carry no usable token: none at all, the scheme alone, an
\* empty token, text that is not base64, and a token whose identity is empty
BadHeaders ==
  {NoHeader, << <<1>> >>, Bearer(<<>>), Bearer(<<65, 1, 2, 3>>), Bearer(<<5>>),
   Bearer(Btoa(<<ChColon, 48>>))}

\* the prologue every protected handler starts with
AuthStatusNoVerify(header) ==
  IF ~Truthy(AccessToken(header)) THEN "noToken" ELSE "ok"
AuthStatus(header) ==
  IF ~Truthy(AccessToken(header)) THEN "noToken"
  ELSE IF ~Truthy(VerifyToken(AccessToken(header).s)) THEN "invalid"
  ELSE "ok"

UserIdOf(header) == VerifyToken(AccessToken(header).s).s

(***************************************************************************)
(* State                                                                   *)
(***************************************************************************)
VARIABLES
  users,      \* KV entries user:<email>, keyed by <email>
  missions,   \* KV entries missions:<email>
  txns,       \* KV entries transactions:<email>
  financial,  \* KV entries financial:<email>
  posts,      \* KV entries post:<postId>, keyed by <postId>
  now,        \* the server clock, Date.now()
  geminiKey,  \* whether GEMINI_API_KEY is configured
  resp,       \* the request just served and the response to it
  calls,      \* the requests in flight between two of their KV operations
  client      \* the browser client: its local userData and its screen

vars == <<users, missions, txns, financial, posts, now, geminiKey, resp,
          calls, client>>
store == <<users, missions, txns, financial, posts>>

\* the requests that can be in flight at the same time
Procs == {1, 2}
\* a request slot that holds no request
NoCall == [pc |-> "idle", op |-> "none", status |-> 0]
NoCalls == [p \in Procs |-> NoCall]

\* useState of App: userData.isOnboarded false, currentScreen 'auth'; no
\* token in localStorage
FreshClient == [isOnboarded |-> FALSE, screen |-> "auth", token |-> <<>>]

UserFields ==
  {"email", "name", "createdAt", "isOnboarded", "password", "xpLevel",
   "streak", "currentSavings", "currentNetWorth", "monthlyIncome",
   "interests", "targetAge", "friends", "updatedAt", "lastMissionDate"}

\* the empty object {}
EmptyObj == [f \in UserFields |-> Undef]

\* an object literal: the fields of the record r, every other field missing
Obj(r) == [f \in UserFields |-> IF f \in DOMAIN r THEN r[f] ELSE Undef]

\* { ...a, ...b }
SpreadKeepsOld(a, b) == [f \in UserFields |-> IF a[f].k # "undef" THEN a[f] ELSE b[f]]
Spread(a, b) == [f \in UserFields |-> IF b[f].k # "undef" THEN b[f] ELSE a[f]]

\* kv.get(key): the stored value, undefined when the key is absent
Has(m, key) == key \in DOMAIN m
\* kv.set(key, value)
PutExisting(m, key, v) ==
  [x \in DOMAIN m |-> IF x = key THEN v ELSE m[x]]
Put(m, key, v) == [x \in DOMAIN m \cup {key} |-> IF x = key THEN v ELSE m[x]]
\* kv.get(`user:${id}`) || {}
UserOrEmpty(id) == IF Has(users, id) THEN users[id] ELSE EmptyObj

NoOut == [none |-> TRUE]

\* the answer of a handler that ran from its first to its last line in one
\* step; the requests in flight and the client are not touched by it
Reply(op, status, err, kvOps, failed, req, out) ==
  /\ resp' = [op |-> op, status |-> status, err |-> err, kvOps |-> kvOps,
              failed |-> failed, req |-> req, out |-> out]
  /\ UNCHANGED <<calls, client>>

Same == UNCHANGED <<users, missions, txns, financial, posts>>
Env == UNCHANGED <<now, geminiKey>>

\* the two 401 answers of the auth prologue; no KV call has been made
Reject(op, header, req) ==
  /\ AuthStatus(header) # "ok"
  /\ Reply(op, 401, AuthStatus(header), 0, FALSE, req, NoOut)
  /\ Same /\ Env

(***************************************************************************)
(* POST /signup                                                            *)
(***************************************************************************)
\* the record sign-up stores
NewUserOnboarded(body, t) ==
  Obj([email |-> body.email, name |-> body.name, createdAt |-> IsoString(t),
       isOnboarded |-> Bool(TRUE),
       password |-> Str(HashPassword(body.password.s))])
NewUser(body, t) ==
  Obj([email |-> body.email, name |-> body.name, createdAt |-> IsoString(t),
       isOnboarded |-> Bool(FALSE),
       password |-> Str(HashPassword(body.password.s))])

\* kv.set(`user:${email}`, {...}) of sign-up: the record is written whether
\* or not the key holds one
SignupStoredOnce(m, body, t) ==
  IF Has(m, body.email.s) THEN m ELSE Put(m, body.email.s, NewUser(body, t))
SignupStored(m, body, t) == Put(m, body.email.s, NewUser(body, t))

Signup(body, fail) ==
  LET email == body.email
      req == [header |-> NoHeader, body |-> body]
  IN
  /\ Env
  /\ IF ~Truthy(email) \/ ~Truthy(body.password) \/ ~Truthy(body.name) THEN
       /\ Reply("signup", 400, "missing", 0, FALSE, req, NoOut) /\ Same
     ELSE IF fail = 1 THEN
       /\ Reply("signup", 500, "server", 1, TRUE, req, NoOut) /\ Same
     ELSE IF Has(users, email.s) THEN
       /\ Reply("signup", 400, "exists", 1, FALSE, req, NoOut) /\ Same
     ELSE IF fail = 2 THEN
       /\ Reply("signup", 500, "server", 2, TRUE, req, NoOut) /\ Same
     ELSE
       /\ users' = SignupStored(users, body, now)
       /\ UNCHANGED <<missions, txns, financial, posts>>
       /\ IF GenerateTokenThrows(email.s)
          THEN Reply("signup", 500, "server", 2, FALSE, req, NoOut)
          ELSE Reply("signup", 200, "", 2, FALSE, req,
                     [userId |-> email,
                      accessToken |-> GenerateToken(email.s, now)])

(***************************************************************************)
(* POST /login                                                             *)
(***************************************************************************)
LoginAcceptsAny(body, fail) ==
  LET email == body.email
      req == [header |-> NoHeader, body |-> body]
  IN
  /\ Env /\ Same
  /\ IF ~Truthy(email) \/ ~Truthy(body.password) THEN
       Reply("login", 400, "missing", 0, FALSE, req, NoOut)
     ELSE IF fail = 1 THEN
       Reply("login", 500, "server", 1, TRUE, req, NoOut)
     ELSE IF ~Has(users, email.s) THEN
       Reply("login", 401, "notFound", 1, FALSE, req, NoOut)
     ELSE IF GenerateTokenThrows(email.s) THEN
       Reply("login", 500, "server", 1, FALSE, req, NoOut)
     ELSE
       Reply("login", 200, "", 1, FALSE, req,
             [userId |-> email, accessToken |-> GenerateToken(email.s, now),
              userData |-> users[email.s]])

Login(body, fail) ==
  LET email == body.email
      req == [header |-> NoHeader, body |-> body]
  IN
  /\ Env /\ Same
  /\ IF ~Truthy(email) \/ ~Truthy(body.password) THEN
       Reply("login", 400, "missing", 0, FALSE, req, NoOut)
     ELSE IF fail = 1 THEN
       Reply("login", 500, "server", 1, TRUE, req, NoOut)
     ELSE IF ~Has(users, email.s) THEN
       Reply("login", 401, "notFound", 1, FALSE, req, NoOut)
     ELSE IF users[email.s]["password"] # Str(HashPassword(body.password.s)) THEN
       Reply("login", 401, "password", 1, FALSE, req, NoOut)
     ELSE IF GenerateTokenThrows(email.s) THEN
       Reply("login", 500, "server", 1, FALSE, req, NoOut)
     ELSE
       Reply("login", 200, "", 1, FALSE, req,
             [userId |-> email, accessToken |-> GenerateToken(email.s, now),
              userData |-> users[email.s]])

(***************************************************************************)
(* GET /profile                                                            *)
(***************************************************************************)
GetProfile(header, fail) ==
  LET req == [header |-> header]
      userId == UserIdOf(header)
  IN
  \/ Reject("getProfile", header, req)
  \/ /\ AuthStatus(header) = "ok"
     /\ Env /\ Same
     /\ IF fail = 1 THEN Reply("getProfile", 500, "server", 1, TRUE, req, NoOut)
        ELSE Reply("getProfile", 200, "", 1, FALSE, req,
                   [userId |-> Str(userId), userData |-> UserOrEmpty(userId)])

(***************************************************************************)
(* POST /update-profile                                                    *)
(***************************************************************************)
\* { ...existingData, ...updates, updatedAt: now }
MergedWhitelisted(existingData, updates, t) ==
  [Spread(existingData, [updates EXCEPT !["email"] = Undef])
     EXCEPT !["updatedAt"] = IsoString(t)]
Merged(existingData, updates, t) ==
  [Spread(existingData, updates) EXCEPT !["updatedAt"] = IsoString(t)]

UpdateProfile(header, updates, fail) ==
  LET req == [header |-> header, updates |-> updates]
      userId == UserIdOf(header)
      updatedData == Merged(UserOrEmpty(userId), updates, now)
  IN
  \/ Reject("updateProfile", header, req)
  \/ /\ AuthStatus(header) = "ok"
     /\ Env
     /\ IF fail = 1 THEN
          /\ Reply("updateProfile", 500, "server", 1, TRUE, req, NoOut) /\ Same
        ELSE IF fail = 2 THEN
          /\ Reply("updateProfile", 500, "server", 2, TRUE, req, NoOut) /\ Same
        ELSE
          /\ users' = Put(users, userId, updatedData)
          /\ UNCHANGED <<missions, txns, financial, posts>>
          /\ IF fail = 3
             THEN Reply("updateProfile", 500, "server", 3, TRUE, req, NoOut)
             ELSE Reply("updateProfile", 200, "", 3, FALSE, req,
                        [userData |-> updatedData])

(***************************************************************************)
(* POST /transactions, GET /transactions                                   *)
(***************************************************************************)
TyIncome == <<105, 110, 99>>
TyExpense == <<101, 120, 112>>
TySaving == <<115, 97, 118>>
TyInvestment == <<105, 110, 118>>
TxnTypes == {TyIncome, TyExpense, TySaving, TyInvestment}

\* `txn_${Date.now()}_${Math.random()...}`
TxnId(t, rnd) == Str(<<116>> \o Digits(t) \o <<95>> \o Digits(rnd))

\* a value as JSON carries it: Infinity is written as null
Json(v) == IF v.k = "inf" THEN Null ELSE v

NewTransaction(body, t, rnd) ==
  [type |-> body.type,
   amount |-> Json(IF body.amount.k = "inf" THEN Infinity
                   ELSE Num(NumberOr0(body.amount))),
   description |-> OrElse(body.description, Str(<<>>)),
   category |-> OrElse(body.category, Str(<<>>)),
   id |-> TxnId(t, rnd), date |-> IsoString(t)]

\* the type-specific deltas, before clamping
NewSavingsNever(type, savings, amount) == savings
NewSavings(type, savings, amount) ==
  IF type = TySaving THEN savings + amount ELSE savings

NewNetWorthNoExpense(type, worth, amount) ==
  IF type \in {TySaving, TyInvestment, TyIncome} THEN worth + amount
  ELSE worth
NewNetWorthSavingOnly(type, worth, amount) ==
  IF type \in {TySaving, TyInvestment} THEN worth + amount
  ELSE IF type = TyExpense THEN worth - amount
  ELSE worth
NewNetWorth(type, worth, amount) ==
  IF type \in {TySaving, TyInvestment, TyIncome} THEN worth + amount
  ELSE IF type = TyExpense THEN worth - amount
  ELSE worth

ClampNone(x) == x
Clamp(x) == Max(0, x)

TxnsOrEmpty(id) == IF Has(txns, id) THEN txns[id] ELSE <<>>

AppendTxnFront(list, t) == <<t>> \o list
AppendTxn(list, t) == Append(list, t)

\* the money fields written after a transaction was recorded
MoneyAfterNone(userData, body) == EmptyObj
MoneyAfter(userData, body) ==
  LET currentSavings == NumberOr0(userData["currentSavings"])
      currentNetWorth == NumberOr0(userData["currentNetWorth"])
      amount == NumberOr0(body.amount)
      newSavings == Clamp(NewSavings(body.type.s, currentSavings, amount))
      newNetWorth == Clamp(NewNetWorth(body.type.s, currentNetWorth, amount))
      \* with an infinite amount the sums are Infinity, or 0 after the clamp
      \* of -Infinity for an expense
      infinite == body.amount.k = "inf"
  IN Obj([currentSavings |->
            Json(IF infinite /\ body.type.s = TySaving THEN Infinity
                 ELSE Num(newSavings)),
          currentNetWorth |->
            Json(IF ~infinite THEN Num(newNetWorth)
                 ELSE IF body.type.s = TyExpense THEN Num(0) ELSE Infinity)])

\* the checks on the body of POST /transactions
ValidTxn(body) ==
  /\ Truthy(body.type) /\ body.type.k = "str" /\ body.type.s \in TxnTypes
  /\ Truthy(body.amount)
  /\ body.amount.k \in {"num", "inf"}
  /\ body.amount.k = "num" => body.amount.n > 0

PostTransactions(header, body, rnd, fail) ==
  LET req == [header |-> header, txn |-> body]
      userId == UserIdOf(header)
      newTransaction == NewTransaction(body, now, rnd)
      transactions == AppendTxn(TxnsOrEmpty(userId), newTransaction)
      userData == UserOrEmpty(userId)
      savedSavings == MoneyAfter(userData, body)["currentSavings"]
      savedNetWorth == MoneyAfter(userData, body)["currentNetWorth"]
  IN
  \/ Reject("postTransactions", header, req)
  \/ /\ AuthStatus(header) = "ok"
     /\ Len(TxnsOrEmpty(userId)) < MaxTxns
     /\ Env
     /\ UNCHANGED <<missions, financial, posts>>
     /\ IF ~Truthy(body.type) \/ body.type.k # "str" \/ body.type.s \notin TxnTypes THEN
          /\ Reply("postTransactions", 400, "type", 0, FALSE, req, NoOut)
          /\ UNCHANGED <<users, txns>>
        ELSE IF \/ ~Truthy(body.amount)
                \/ body.amount.k \notin {"num", "inf"}
                \/ body.amount.k = "num" /\ body.amount.n <= 0 THEN
          /\ Reply("postTransactions", 400, "amount", 0, FALSE, req, NoOut)
          /\ UNCHANGED <<users, txns>>
        ELSE IF fail \in {1, 2} THEN
          /\ Reply("postTransactions", 500, "server", fail, TRUE, req, NoOut)
          /\ UNCHANGED <<users, txns>>
        ELSE
          /\ txns' = Put(txns, userId, transactions)
          /\ IF fail \in {3, 4} THEN
               /\ Reply("postTransactions", 500, "server", fail, TRUE, req, NoOut)
               /\ UNCHANGED users
             ELSE
               /\ users' = Put(users, userId,
                               Spread(userData,
                                      Obj([currentSavings |-> savedSavings,
                                           currentNetWorth |-> savedNetWorth])))
               /\ Reply("postTransactions", 200, "", 4, FALSE, req,
                        [transaction |-> newTransaction,
                         newSavings |-> savedSavings,
                         newNetWorth |-> savedNetWorth])

GetTransactions(header, fail) ==
  LET req == [header |-> header]
      userId == UserIdOf(header)
  IN
  \/ Reject("getTransactions", header, req)
  \/ /\ AuthStatus(header) = "ok"
     /\ Env /\ Same
     /\ IF fail = 1 THEN Reply("getTransactions", 500, "server", 1, TRUE, req, NoOut)
        ELSE Reply("getTransactions", 200, "", 1, FALSE, req,
                   [transactions |-> TxnsOrEmpty(userId)])

(***************************************************************************)
(* GET /health                                                             *)
(***************************************************************************)
Health ==
  /\ Reply("health", 200, "", 0, FALSE, [header |-> NoHeader],
           [status |-> "ok", timestamp |-> IsoString(now)])
  /\ Same /\ Env

(***************************************************************************)
(* GET /leaderboard                                                        *)
(***************************************************************************)
TopN == 50
SearchLimit == 20

\* kv.getByPrefix('user:'): the stored values, in an order the store chooses
IsOrderOf(order, m) ==
  /\ Len(order) = Cardinality(DOMAIN m)
  /\ {order[i] : i \in 1..Len(order)} = DOMAIN m
Orders(m) ==
  {o \in [1..Cardinality(DOMAIN m) -> DOMAIN m] :
     \A i, j \in 1..Cardinality(DOMAIN m) : i # j => o[i] # o[j]}
GetByPrefix(m, order) == [i \in 1..Len(order) |-> m[order[i]]]

\* user.xpLevel || 0
XpOf(user) == NumberOr0(OrElse(user["xpLevel"], Num(0)))

\* Array.prototype.sort with (a, b) => (b.xpLevel || 0) - (a.xpLevel || 0).
\* The sort is stable: an element j comes before an element i when the
\* comparator is negative for (j, i), or zero with j earlier in the input.
SortByXp(list) ==
  LET n == Len(list)
      xp == SubSeq([i \in 1..n |-> XpOf(list[i])], 1, n)
      pos == SubSeq([i \in 1..n |->
                1 + Cardinality({j \in 1..n :
                      \/ xp[i] - xp[j] < 0
                      \/ xp[i] - xp[j] = 0 /\ j < i})], 1, n)
      at == SubSeq([k \in 1..n |-> CHOOSE i \in 1..n : pos[i] = k], 1, n)
  IN [k \in 1..n |-> list[at[k]]]

SliceAll(list, n) == list
Slice(list, n) == SubSeq(list, 1, Min(n, Len(list)))

LevelOf(user) == XpOf(user) \div 100

\* the filter of the leaderboard: onboarded users that carry an email
Listed(user) == Truthy(user["isOnboarded"]) /\ Truthy(user["email"])

FilterListed(list) ==
  LET n == Len(list)
      kept == {i \in 1..n : Listed(list[i])}
      before == SubSeq([i \in 1..n |-> Cardinality({j \in kept : j < i})], 1, n)
      at == SubSeq([k \in 1..Cardinality(kept) |->
                      CHOOSE i \in kept : before[i] = k - 1], 1, Cardinality(kept))
  IN [k \in 1..Cardinality(kept) |-> list[at[k]]]

BoardEntryFlagAll(user, index, userId) ==
  [name |-> OrElse(user["name"], Str(<<85>>)),
   email |-> OrElse(user["email"], Str(<<>>)),
   xp |-> XpOf(user), level |-> LevelOf(user),
   streak |-> OrElse(user["streak"], Num(0)),
   rank |-> index, isCurrentUser |-> TRUE]
BoardEntry(user, index, userId) ==
  [name |-> OrElse(user["name"], Str(<<85>>)),
   email |-> OrElse(user["email"], Str(<<>>)),
   xp |-> XpOf(user), level |-> LevelOf(user),
   streak |-> OrElse(user["streak"], Num(0)),
   rank |-> index, isCurrentUser |-> (user["email"] = Str(userId))]

Leaderboard(allUsers, userId) ==
  LET top == Slice(SortByXp(FilterListed(allUsers)), TopN)
  IN [i \in 1..Len(top) |-> BoardEntry(top[i], i, userId)]

GetLeaderboard(header, order, fail) ==
  LET req == [header |-> header, order |-> order]
      userId == UserIdOf(header)
  IN
  \/ Reject("getLeaderboard", header, req)
  \/ /\ AuthStatus(header) = "ok"
     /\ IsOrderOf(order, users)
     /\ Env /\ Same
     /\ IF fail = 1 THEN Reply("getLeaderboard", 500, "server", 1, TRUE, req, NoOut)
        ELSE Reply("getLeaderboard", 200, "", 1, FALSE, req,
                   [leaderboard |-> Leaderboard(GetByPrefix(users, order), userId)])

(***************************************************************************)
(* POST /friends/add, GET /friends                                         *)
(***************************************************************************)
\* userData.friends || []
FriendsOf(user) == OrElse(user["friends"], List(<<>>))

\* the entry of a friend in the responses
FriendView(friendData, email) ==
  [name |-> friendData["name"], email |-> email,
   xp |-> XpOf(friendData), level |-> LevelOf(friendData),
   streak |-> OrElse(friendData["streak"], Num(0))]

\* the friend object of the POST /friends/add response
AddedFriend(friendData, email) ==
  [name |-> friendData["name"], email |-> email,
   xp |-> XpOf(friendData), level |-> LevelOf(friendData)]

PushFriendNot(list, v) == list
PushFriend(list, v) == Append(list, v)

FriendsAdd(header, friendEmail, fail) ==
  LET req == [header |-> header, friendEmail |-> friendEmail]
      userId == UserIdOf(header)
      friendKey == TemplateOf(friendEmail)
      userData == UserOrEmpty(userId)
      friends == FriendsOf(userData)
      userData2 == Spread(userData,
                          Obj([friends |-> List(PushFriend(friends.s, friendEmail))]))
      users2 == Put(users, userId, userData2)
      \* the friend's record is read again after the first write
      friendUserData == users2[friendKey]
      friendFriends == FriendsOf(friendUserData)
      users3 == Put(users2, friendKey,
                    Spread(friendUserData,
                           Obj([friends |-> List(PushFriend(friendFriends.s, Str(userId)))])))
  IN
  \/ Reject("friendsAdd", header, req)
  \/ /\ AuthStatus(header) = "ok"
     /\ Env
     /\ UNCHANGED <<missions, txns, financial, posts>>
     /\ IF fail = 1 THEN
          /\ Reply("friendsAdd", 500, "server", 1, TRUE, req, NoOut)
          /\ UNCHANGED users
        ELSE IF ~Has(users, friendKey) THEN
          /\ Reply("friendsAdd", 404, "notFound", 1, FALSE, req, NoOut)
          /\ UNCHANGED users
        ELSE IF fail = 2 THEN
          /\ Reply("friendsAdd", 500, "server", 2, TRUE, req, NoOut)
          /\ UNCHANGED users
        ELSE IF friends.k \notin {"list", "str"} THEN
          \* friends.includes is not a function
          /\ Reply("friendsAdd", 500, "server", 2, FALSE, req, NoOut)
          /\ UNCHANGED users
        ELSE IF friends.k = "str" THEN
          \* String.includes, then friends.push is not a function
          /\ IF Contains(friends.s, friendKey)
             THEN Reply("friendsAdd", 400, "already", 2, FALSE, req, NoOut)
             ELSE Reply("friendsAdd", 500, "server", 2, FALSE, req, NoOut)
          /\ UNCHANGED users
        ELSE IF Includes(friends.s, friendEmail) THEN
          /\ Reply("friendsAdd", 400, "already", 2, FALSE, req, NoOut)
          /\ UNCHANGED users
        ELSE IF fail = 3 THEN
          /\ Reply("friendsAdd", 500, "server", 3, TRUE, req, NoOut)
          /\ UNCHANGED users
        ELSE IF fail = 4 THEN
          /\ Reply("friendsAdd", 500, "server", 4, TRUE, req, NoOut)
          /\ users' = users2
        ELSE IF friendFriends.k \notin {"list", "str"} THEN
          /\ Reply("friendsAdd", 500, "server", 4, FALSE, req, NoOut)
          /\ users' = users2
        ELSE IF friendFriends.k = "str" THEN
          /\ IF Contains(friendFriends.s, userId)
             THEN Reply("friendsAdd", 200, "", 4, FALSE, req,
                        [friend |-> AddedFriend(users[friendKey], friendEmail)])
             ELSE Reply("friendsAdd", 500, "server", 4, FALSE, req, NoOut)
          /\ users' = users2
        ELSE IF Includes(friendFriends.s, Str(userId)) THEN
          /\ Reply("friendsAdd", 200, "", 4, FALSE, req,
                   [friend |-> AddedFriend(users[friendKey], friendEmail)])
          /\ users' = users2
        ELSE IF fail = 5 THEN
          /\ Reply("friendsAdd", 500, "server", 5, TRUE, req, NoOut)
          /\ users' = users2
        ELSE
          /\ Reply("friendsAdd", 200, "", 5, FALSE, req,
                   [friend |-> AddedFriend(users[friendKey], friendEmail)])
          /\ users' = users3

\* the loop of GET /friends over the stored e-mails: one entry per friend
\* whose record exists
RECURSIVE FriendViews(_, _)
FriendViews(m, emails) ==
  IF Len(emails) = 0 THEN <<>>
  ELSE IF Has(m, TemplateOf(emails[1]))
       THEN <<FriendView(m[TemplateOf(emails[1])], emails[1])>>
              \o FriendViews(m, Tail(emails))
       ELSE FriendViews(m, Tail(emails))

\* for (const email of friendEmails): an array yields its elements, a string
\* its characters; any other truthy value is not iterable
Iterable(v) == v.k \in {"list", "str"}
ItemsOf(v) == IF v.k = "list" THEN v.s ELSE [i \in 1..Len(v.s) |-> Str(<<v.s[i]>>)]

\* what GET /friends answers for userId over the store m
FriendsList(m, userId) ==
  FriendViews(m, ItemsOf(FriendsOf(IF Has(m, userId) THEN m[userId] ELSE EmptyObj)))

GetFriends(header, fail) ==
  LET req == [header |-> header]
      userId == UserIdOf(header)
      friendEmails == FriendsOf(UserOrEmpty(userId))
  IN
  \/ Reject("getFriends", header, req)
  \/ /\ AuthStatus(header) = "ok"
     /\ Env /\ Same
     /\ IF fail = 1 THEN
          Reply("getFriends", 500, "server", 1, TRUE, req, NoOut)
        ELSE IF ~Iterable(friendEmails) THEN
          Reply("getFriends", 500, "server", 1, FALSE, req, NoOut)
        ELSE IF fail \in 2..(1 + Len(friendEmails.s)) THEN
          Reply("getFriends", 500, "server", fail, TRUE, req, NoOut)
        ELSE
          Reply("getFriends", 200, "", 1 + Len(friendEmails.s), FALSE, req,
                [friends |-> FriendsList(users, userId)])

(***************************************************************************)
(* GET /users/search                                                       *)
(***************************************************************************)
\* user.name?.toLowerCase() and user.email.toLowerCase() throw a TypeError
\* on a value that is not a string
MatchThrows(user, userId, query) ==
  /\ Listed(user)
  /\ user["email"] # Str(userId)
  /\ \/ user["name"].k \notin {"str", "undef", "null"}
     \/ /\ ~(user["name"].k = "str"
             /\ Contains(ToLowerCase(user["name"].s), ToLowerCase(query)))
        /\ user["email"].k # "str"

Matches(user, userId, query) ==
  /\ Listed(user)
  /\ user["email"] # Str(userId)
  /\ \/ /\ user["name"].k = "str"
        /\ Contains(ToLowerCase(user["name"].s), ToLowerCase(query))
     \/ Contains(ToLowerCase(user["email"].s), ToLowerCase(query))

RECURSIVE FilterMatches(_, _, _)
FilterMatches(list, userId, query) ==
  IF Len(list) = 0 THEN <<>>
  ELSE IF Matches(list[1], userId, query)
       THEN <<list[1]>> \o FilterMatches(Tail(list), userId, query)
       ELSE FilterMatches(Tail(list), userId, query)

SearchEntry(user) ==
  [name |-> OrElse(user["name"], Str(<<85>>)),
   email |-> OrElse(user["email"], Str(<<>>)),
   xp |-> XpOf(user), level |-> LevelOf(user)]

SearchUsers(allUsers, userId, query) ==
  LET hits == Slice(FilterMatches(allUsers, userId, query), SearchLimit)
  IN [i \in 1..Len(hits) |-> SearchEntry(hits[i])]

UsersSearch(header, query, order, fail) ==
  LET req == [header |-> header, query |-> query, order |-> order]
      userId == UserIdOf(header)
  IN
  \/ Reject("usersSearch", header, req)
  \/ /\ AuthStatus(header) = "ok"
     /\ IsOrderOf(order, users)
     /\ Env /\ Same
     /\ IF Len(query) < 2 THEN
          Reply("usersSearch", 200, "", 0, FALSE, req, [users |-> <<>>])
        ELSE IF fail = 1 THEN
          Reply("usersSearch", 500, "server", 1, TRUE, req, NoOut)
        ELSE IF \E i \in 1..Len(order) : MatchThrows(users[order[i]], userId, query) THEN
          Reply("usersSearch", 500, "server", 1, FALSE, req, NoOut)
        ELSE
          Reply("usersSearch", 200, "", 1, FALSE, req,
                [users |-> SearchUsers(GetByPrefix(users, order), userId, query)])

(***************************************************************************)
(* GET /missions, POST /missions, POST /missions/complete                  *)
(***************************************************************************)
MissionFields ==
  {"id", "title", "description", "icon", "xp", "category", "timeEstimate",
   "priority", "classification", "whyItMatters", "tips", "completed",
   "completedAt"}

Mission(r) == [f \in MissionFields |-> IF f \in DOMAIN r THEN r[f] ELSE Undef]

\* { missions: [], completedToday: 0, lastReset: now }
MissionsDataNoList(list, done, reset) ==
  [missions |-> List(<<>>), completedToday |-> done, lastReset |-> reset]
MissionsData(list, done, reset) ==
  [missions |-> list, completedToday |-> done, lastReset |-> reset]

MissionsOrDefaultDone(id) ==
  IF Has(missions, id) THEN missions[id]
  ELSE MissionsData(List(<<>>), Num(1), IsoString(now))
MissionsOrDefault(id) ==
  IF Has(missions, id) THEN missions[id]
  ELSE MissionsData(List(<<>>), Num(0), IsoString(now))

\* a + b of JavaScript; NaN is stored and sent as JSON null
JsPlus(a, b) ==
  IF a.k \in {"str", "list"} \/ b.k \in {"str", "list"}
    THEN Str(TemplateOf(a) \o TemplateOf(b))
  ELSE IF a.k = "undef" \/ b.k = "undef" THEN Null
  ELSE Num(a.n + b.n)

GetMissions(header, fail) ==
  LET req == [header |-> header]
      userId == UserIdOf(header)
  IN
  \/ Reject("getMissions", header, req)
  \/ /\ AuthStatus(header) = "ok"
     /\ Env /\ Same
     /\ IF fail = 1 THEN Reply("getMissions", 500, "server", 1, TRUE, req, NoOut)
        ELSE Reply("getMissions", 200, "", 1, FALSE, req,
                   [data |-> MissionsOrDefault(userId)])

PostMissions(header, list, fail) ==
  LET req == [header |-> header, missions |-> list]
      userId == UserIdOf(header)
  IN
  \/ Reject("postMissions", header, req)
  \/ /\ AuthStatus(header) = "ok"
     /\ Env
     /\ UNCHANGED <<users, txns, financial, posts>>
     /\ IF fail = 1 THEN
          /\ Reply("postMissions", 500, "server", 1, TRUE, req, NoOut)
          /\ UNCHANGED missions
        ELSE
          /\ missions' = Put(missions, userId,
                             MissionsData(OrElse(list, List(<<>>)), Num(0),
                                          IsoString(now)))
          /\ Reply("postMissions", 200, "", 1, FALSE, req, NoOut)

\* updatedMissions.findIndex(m => m.id === missionId): 0 when none matches
FindIndex(list, missionId) ==
  IF \E i \in 1..Len(list) : list[i]["id"] = missionId
  THEN CHOOSE i \in 1..Len(list) :
         /\ list[i]["id"] = missionId
         /\ \A j \in 1..(i - 1) : list[j]["id"] # missionId
  ELSE 0

MarkOrPushAlways(list, missionId, t) ==
  Append(list, Mission([id |-> missionId, completed |-> Bool(TRUE),
                        completedAt |-> IsoString(t)]))
MarkAll(list, missionId, t) ==
  [i \in 1..Len(list) |-> [list[i] EXCEPT !["completed"] = Bool(TRUE)]]
MarkOrPush(list, missionId, t) ==
  IF FindIndex(list, missionId) > 0
  THEN [list EXCEPT ![FindIndex(list, missionId)]["completed"] = Bool(TRUE)]
  ELSE Append(list, Mission([id |-> missionId, completed |-> Bool(TRUE),
                             completedAt |-> IsoString(t)]))

MissionsComplete(header, missionId, xpEarned, fail) ==
  LET req == [header |-> header, missionId |-> missionId, xpEarned |-> xpEarned]
      userId == UserIdOf(header)
      missionsData == MissionsOrDefault(userId)
      updatedMissions == OrElse(missionsData.missions, List(<<>>))
      updatedMissionsData ==
        [missionsData EXCEPT
           !.missions = List(MarkOrPush(updatedMissions.s, missionId, now)),
           !.completedToday = JsPlus(OrElse(missionsData.completedToday, Num(0)), Num(1))]
      userData == UserOrEmpty(userId)
      currentXP == OrElse(userData["xpLevel"], Num(0))
      updatedUserData ==
        Spread(userData, Obj([xpLevel |-> JsPlus(currentXP, xpEarned),
                              lastMissionDate |-> IsoString(now)]))
  IN
  \/ Reject("missionsComplete", header, req)
  \/ /\ AuthStatus(header) = "ok"
     /\ Env
     /\ UNCHANGED <<txns, financial, posts>>
     /\ IF fail = 1 THEN
          /\ Reply("missionsComplete", 500, "server", 1, TRUE, req, NoOut)
          /\ UNCHANGED <<users, missions>>
        ELSE IF updatedMissions.k # "list" THEN
          \* findIndex is not a function
          /\ Reply("missionsComplete", 500, "server", 1, FALSE, req, NoOut)
          /\ UNCHANGED <<users, missions>>
        ELSE IF fail = 2 THEN
          /\ Reply("missionsComplete", 500, "server", 2, TRUE, req, NoOut)
          /\ UNCHANGED <<users, missions>>
        ELSE
          /\ missions' = Put(missions, userId, updatedMissionsData)
          /\ IF fail \in {3, 4} THEN
               /\ Reply("missionsComplete", 500, "server", fail, TRUE, req, NoOut)
               /\ UNCHANGED users
             ELSE
               /\ users' = Put(users, userId, updatedUserData)
               /\ Reply("missionsComplete", 200, "", 4, FALSE, req,
                        [xpEarned |-> xpEarned,
                         newXP |-> JsPlus(currentXP, xpEarned)])

(***************************************************************************)
(* POST /financial-data, GET /financial-data                               *)
(***************************************************************************)
FinancialFields == {"metrics", "updatedAt"}

PostFinancial(header, financialData, fail) ==
  LET req == [header |-> header, financialData |-> financialData]
      userId == UserIdOf(header)
  IN
  \/ Reject("postFinancial", header, req)
  \/ /\ AuthStatus(header) = "ok"
     /\ Env
     /\ UNCHANGED <<users, missions, txns, posts>>
     /\ IF fail = 1 THEN
          /\ Reply("postFinancial", 500, "server", 1, TRUE, req, NoOut)
          /\ UNCHANGED financial
        ELSE
          /\ financial' = Put(financial, userId,
                              [financialData EXCEPT !["updatedAt"] = IsoString(now)])
          /\ Reply("postFinancial", 200, "", 1, FALSE, req, NoOut)

GetFinancial(header, fail) ==
  LET req == [header |-> header]
      userId == UserIdOf(header)
  IN
  \/ Reject("getFinancial", header, req)
  \/ /\ AuthStatus(header) = "ok"
     /\ Env /\ Same
     /\ IF fail = 1 THEN Reply("getFinancial", 500, "server", 1, TRUE, req, NoOut)
        ELSE Reply("getFinancial", 200, "", 1, FALSE, req,
                   [found |-> Has(financial, userId),
                    data |-> IF Has(financial, userId) THEN financial[userId]
                             ELSE [f \in FinancialFields |-> Null]])

(***************************************************************************)
(* GET /community/posts, POST /community/posts                             *)
(***************************************************************************)
ChSpace == 32

\* String.prototype.trim
RECURSIVE TrimLeft(_)
TrimLeft(c) == IF Len(c) > 0 /\ c[1] = ChSpace THEN TrimLeft(Tail(c)) ELSE c
RECURSIVE TrimRight(_)
TrimRight(c) ==
  IF Len(c) > 0 /\ c[Len(c)] = ChSpace THEN TrimRight(SubSeq(c, 1, Len(c) - 1)) ELSE c
Trim(c) == TrimRight(TrimLeft(c))

\* `post_${Date.now()}_${userId}`
PostId(t, userId) == <<112>> \o Digits(t) \o <<95>> \o userId

TypeAchievement == <<97, 99, 104>>
NameAgent == <<65, 103>>

\* new Date(createdAt).getTime(), 0 when createdAt is missing
TimeOf(post) ==
  IF Truthy(post.createdAt) /\ post.createdAt.k = "str"
       /\ Len(post.createdAt.s) > 1 /\ IsDigits(Tail(post.createdAt.s))
  THEN ParseDigits(Tail(post.createdAt.s))
  ELSE 0

RECURSIVE InsertByTime(_, _)
InsertByTime(sorted, q) ==
  IF Len(sorted) = 0 THEN <<q>>
  ELSE IF TimeOf(sorted[1]) >= TimeOf(q)
       THEN <<sorted[1]>> \o InsertByTime(Tail(sorted), q)
       ELSE <<q>> \o sorted

RECURSIVE SortByTime(_)
SortByTime(list) ==
  IF Len(list) = 0 THEN <<>>
  ELSE InsertByTime(SortByTime(SubSeq(list, 1, Len(list) - 1)), list[Len(list)])

GetPosts(header, order, fail) ==
  LET req == [header |-> header, order |-> order]
  IN
  \/ Reject("getPosts", header, req)
  \/ /\ AuthStatus(header) = "ok"
     /\ IsOrderOf(order, posts)
     /\ Env /\ Same
     /\ IF fail = 1 THEN Reply("getPosts", 500, "server", 1, TRUE, req, NoOut)
        ELSE Reply("getPosts", 200, "", 1, FALSE, req,
                   [posts |-> SortByTime(GetByPrefix(posts, order))])

CreatePost(header, content, type, fail) ==
  LET req == [header |-> header, content |-> content, type |-> type]
      userId == UserIdOf(header)
      userData == UserOrEmpty(userId)
      postId == PostId(now, userId)
      post == [id |-> Str(postId), userId |-> Str(userId),
               userName |-> OrElse(userData["name"], Str(NameAgent)),
               content |-> Str(Trim(content.s)),
               type |-> OrElse(type, Str(TypeAchievement)),
               likes |-> 0, comments |-> 0, createdAt |-> IsoString(now)]
  IN
  \/ Reject("createPost", header, req)
  \/ /\ AuthStatus(header) = "ok"
     /\ Env
     /\ UNCHANGED <<users, missions, txns, financial>>
     /\ IF ~Truthy(content) \/ content.k # "str" \/ Len(Trim(content.s)) = 0 THEN
          /\ Reply("createPost", 400, "content", 0, FALSE, req, NoOut)
          /\ UNCHANGED posts
        ELSE IF fail \in {1, 2} THEN
          /\ Reply("createPost", 500, "server", fail, TRUE, req, NoOut)
          /\ UNCHANGED posts
        ELSE
          /\ posts' = Put(posts, postId, post)
          /\ Reply("createPost", 200, "", 2, FALSE, req, [post |-> post])

(***************************************************************************)
(* POST /missions/generate                                                 *)
(***************************************************************************)
\* literals of the mission templates, abbreviated to their leading letters
TxtBusiness == <<98, 117, 115>>
TxtWealthFreedom == <<119, 101, 97>>
TxtMission == <<77, 105, 115>>
TxtTarget == <<116, 103, 116>>
TxtTip == <<116, 105, 112>>
TxtWhy == <<119, 104, 121>>
CatSave == <<83, 65, 86, 69>>
CatLearn == <<76, 69, 65, 82, 78>>
CatEarn == <<69, 65, 82, 78>>
CatNetwork == <<78, 69, 84>>
PrHigh == <<72, 73, 71, 72>>
PrMedium == <<77, 69, 68>>
ClAlpha == <<65, 76>>
ClBeta == <<66, 69>>
ClGamma == <<71, 65>>
DefaultIncome == 50000
DefaultXp == 20
MinAllocation == 200

\* `mission_${i}_${Date.now()}`
MissionId(i, t) == Str(<<109>> \o Digits(i) \o <<95>> \o Digits(t))

\* userData?.interests?.[0] || 'wealth freedom'
GoalOf(userData) ==
  LET v == userData["interests"] IN
    IF v.k = "list" /\ Len(v.s) > 0 THEN OrElse(v.s[1], Str(TxtWealthFreedom))
    ELSE IF v.k = "str" /\ Len(v.s) > 0 THEN Str(<<v.s[1]>>)
    ELSE Str(TxtWealthFreedom)

\* `Allocate ${Math.max(200, Math.floor(monthlyIncome * 0.05))} to ...`
AllocationText(userData) ==
  LET income == OrElse(userData["monthlyIncome"], Num(DefaultIncome)) IN
    IF income.k = "num" \/ (income.k = "str" /\ IsDigits(income.s))
    THEN Str(<<65>> \o Digits(Max(MinAllocation, (NumberOr0(income) * 5) \div 100)))
    ELSE Str(<<65, 78, 97, 78>>)

MissionTemplate(i, t, title, desc, xp, cat, prio, class) ==
  Mission([id |-> MissionId(i, t), title |-> Str(title), description |-> desc,
           icon |-> Str(<<i>>), xp |-> Num(xp), category |-> Str(cat),
           timeEstimate |-> Str(<<i>>), priority |-> Str(prio),
           classification |-> Str(class), whyItMatters |-> Str(TxtWhy),
           tips |-> List(<<Str(TxtTip)>>)])

\* getDefaultMissions()
DefaultMissions(userData, t) ==
  LET business == GoalOf(userData) = Str(TxtBusiness) IN
  << MissionTemplate(1, t, <<83>>, AllocationText(userData), 20, CatSave, PrHigh, ClAlpha),
     MissionTemplate(2, t, <<75>>,
                     IF business THEN Str(<<82, 50>>) ELSE Str(<<67, 105>>),
                     15, CatLearn, PrHigh, ClBeta),
     MissionTemplate(3, t, <<82>>,
                     IF business THEN Str(<<67, 98>>) ELSE Str(<<83, 50>>),
                     30, CatEarn, PrHigh, ClAlpha),
     MissionTemplate(4, t, <<78>>, Str(<<69, 50>>), 25, CatNetwork, PrMedium, ClGamma),
     MissionTemplate(5, t, <<73>>, Str(<<82, 51>>), 25, CatLearn, PrHigh, ClBeta) >>

\* the two missions of the catch block
FallbackMissions(t) ==
  << MissionTemplate(1, t, <<83>>, Str(<<65, 50, 48, 48>>), 20, CatSave, PrHigh, ClAlpha),
     MissionTemplate(2, t, <<75>>, Str(<<67, 102>>), 15, CatLearn, PrHigh, ClBeta) >>

\* the backfill of one element of the parsed array
Backfill(m, index, t) ==
  Mission([id |-> OrElse(m["id"], MissionId(index, t)),
           title |-> OrElse(m["title"], Str(TxtMission)),
           description |-> OrElse(m["description"], Str(<<>>)),
           icon |-> OrElse(m["icon"], Str(TxtTarget)),
           xp |-> OrElse(m["xp"], Num(DefaultXp)),
           category |-> OrElse(m["category"], Str(CatLearn)),
           timeEstimate |-> OrElse(m["timeEstimate"], Str(<<49, 48>>)),
           priority |-> OrElse(m["priority"], Str(PrMedium)),
           classification |-> OrElse(m["classification"], Str(ClBeta)),
           whyItMatters |-> OrElse(m["whyItMatters"], Str(TxtWhy)),
           tips |-> IF m["tips"].k = "list" THEN m["tips"]
                    ELSE List(<<Str(TxtTip)>>)])

\* The AI collaborator's answer: the call throws ("throws"), the text holds
\* no bracketed array ("noArray"), JSON.parse throws ("badJson"), or the text
\* parses to an array ("array") whose items are objects or null.
ParsedOkAny(ai) == ai.kind = "array"
ParsedOk(ai) ==
  /\ ai.kind = "array"
  /\ Len(ai.items) > 0
  /\ \A i \in 1..Len(ai.items) : ~ai.items[i].isNull

\* the list after the AI step (lines 766-847)
ChooseMissionsTruncated(key, ai, userData, t) ==
  IF key /\ ParsedOk(ai)
  THEN [i \in 1..Min(5, Len(ai.items)) |-> Backfill(ai.items[i].obj, i, t)]
  ELSE DefaultMissions(userData, t)
ChooseMissions(key, ai, userData, t) ==
  IF key /\ ParsedOk(ai)
  THEN [i \in 1..Len(ai.items) |-> Backfill(ai.items[i].obj, i, t)]
  ELSE DefaultMissions(userData, t)

\* missions.map(m => ({ ...m, completed: false }))
StampNot(list) == list
Stamp(list) == [i \in 1..Len(list) |-> [list[i] EXCEPT !["completed"] = Bool(FALSE)]]

MissionsGenerate(header, ai, fail, fail2) ==
  LET req == [header |-> header, ai |-> ai]
      userId == UserIdOf(header)
      userData == UserOrEmpty(userId)
      missionsToSave == Stamp(ChooseMissions(geminiKey, ai, userData, now))
  IN
  \/ Reject("missionsGenerate", header, req)
  \/ /\ AuthStatus(header) = "ok"
     /\ Env
     /\ UNCHANGED <<users, txns, financial, posts>>
     /\ IF fail \notin {1, 2} THEN
          /\ missions' = Put(missions, userId,
                             MissionsData(List(missionsToSave), Num(0), IsoString(now)))
          /\ Reply("missionsGenerate", 200, "", 2, FALSE, req,
                   [missions |-> missionsToSave])
        ELSE IF fail2 \in {1, 2} THEN
          \* the fallback of the catch block failed as well
          /\ Reply("missionsGenerate", 500, "server", fail + fail2, TRUE, req, NoOut)
          /\ UNCHANGED missions
        ELSE
          \* catch block: two default missions are stored and returned
          /\ missions' = Put(missions, userId,
                             MissionsData(List(Stamp(FallbackMissions(now))), Num(0),
                                          IsoString(now)))
          /\ Reply("missionsGenerate", 200, "", fail + 2, TRUE, req,
                   [missions |-> FallbackMissions(now)])

(***************************************************************************)
(* The clock                                                               *)
(***************************************************************************)
Idle ==
  [op |-> "none", status |-> 0, err |-> "", kvOps |-> 0, failed |-> FALSE,
   req |-> [header |-> NoHeader], out |-> NoOut]

Tick ==
  /\ now < MaxNow
  /\ now' = now + 1
  /\ resp' = Idle
  /\ Same
  /\ UNCHANGED <<geminiKey, calls, client>>

(***************************************************************************)
(* Initial state and request inputs                                        *)
(***************************************************************************)
Init ==
  /\ users = <<>>
  /\ missions = <<>>
  /\ txns = <<>>
  /\ financial = <<>>
  /\ posts = <<>>
  /\ now = 0
  /\ geminiKey \in BOOLEAN
  /\ resp = Idle
  /\ calls = NoCalls
  /\ client = FreshClient

HdrA == TokenHeader(EmA)
HdrB == TokenHeader(EmB)
HdrAColonB == TokenHeader(EmAColonB)

\* KV failure injection: the index of the KV call that throws, 0 for none
Fails(n) == 0..n

(***************************************************************************)
(* Sign-up and login                                                       *)
(***************************************************************************)
AuthEmails == {EmA, EmAColonB, EmPi}
AuthPasswords == {PwP, PwQ}
SignupBodies ==
  [email : {Str(e) : e \in AuthEmails}, password : {Str(q) : q \in AuthPasswords},
   name : {Str(NameN)}]
    \cup {[email |-> Undef, password |-> Str(PwP), name |-> Str(NameN)],
          [email |-> Str(EmA), password |-> Str(<<>>), name |-> Str(NameN)],
          [email |-> Str(EmA), password |-> Str(PwP), name |-> Undef]}
LoginBodies ==
  [email : {Str(e) : e \in AuthEmails}, password : {Str(q) : q \in AuthPasswords}]
    \cup {[email |-> Str(<<>>), password |-> Str(PwP)],
          [email |-> Str(EmA), password |-> Undef]}
\* profile updates that touch the credentials: a clear-text password, a
\* password digest, and a name
AuthUpdates ==
  {Obj([password |-> Str(PwP)]), Obj([password |-> Str(HashPassword(PwQ))]),
   Obj([name |-> Str(NameN)])}

InitAuth == Init /\ geminiKey = FALSE

NextAuth ==
  \/ \E body \in SignupBodies, fail \in Fails(2) : Signup(body, fail)
  \/ \E body \in LoginBodies, fail \in Fails(1) : Login(body, fail)
  \/ \E h \in {HdrA, HdrAColonB}, updates \in AuthUpdates, fail \in Fails(3) :
       UpdateProfile(h, updates, fail)
  \/ \E h \in BadHeaders : UpdateProfile(h, Obj([password |-> Str(PwP)]), 0)

SpecAuth == InitAuth /\ [][NextAuth]_vars

\* the body of a sign-up or login request carries every required field
FullSignup(r) ==
  /\ r.op = "signup"
  /\ Truthy(r.req.body.email) /\ Truthy(r.req.body.password)
  /\ Truthy(r.req.body.name)

\* C1: a sign-up with all required fields for an e-mail that has no record
\* succeeds, and a following sign-up for the same e-mail (which now has a
\* record) is answered 400 "already exists" and leaves the stored record,
\* password hash included, unchanged (KV calls succeeding).
C1_SignupTwice ==
  [][(FullSignup(resp') /\ ~resp'.failed) =>
       IF Has(users, resp'.req.body.email.s)
       THEN /\ resp'.status = 400 /\ resp'.err = "exists"
            /\ users' = users
       ELSE /\ resp'.status = 200
            /\ Has(users', resp'.req.body.email.s)]_vars

\* C2: a login for an existing user with a password whose hash differs from
\* the stored one is never answered 200, and is answered 401 whenever the KV
\* read succeeded.
C2_WrongPasswordRejected ==
  (/\ resp.op = "login"
   /\ Truthy(resp.req.body.email) /\ Truthy(resp.req.body.password)
   /\ Has(users, resp.req.body.email.s)
   /\ users[resp.req.body.email.s]["password"]
        # Str(HashPassword(resp.req.body.password.s)))
  => /\ resp.status # 200
     /\ resp.out = NoOut
     /\ ~resp.failed => resp.status = 401

\* a wrong password was rejected for a user whose stored password was
\* overwritten by a profile update
C2_Witness ==
  /\ resp.op = "login" /\ resp.status = 401 /\ resp.err = "password"
  /\ users[resp.req.body.email.s]["updatedAt"] # Undef

\* C10: the token issued by a successful sign-up or login verifies to the
\* e-mail it was issued for.
C10_TokenRoundTrip ==
  (resp.op \in {"signup", "login"} /\ resp.status = 200)
  => VerifyToken(resp.out.accessToken) = resp.req.body.email

(***************************************************************************)
(* Transactions                                                            *)
(***************************************************************************)
TxnSignup == [email |-> Str(EmA), password |-> Str(PwP), name |-> Str(NameN)]

\* profile updates that overwrite the money fields: negative numbers,
\* positive numbers, and text that is not a number
TxnUpdates ==
  {Obj([currentNetWorth |-> Num(0 - MaxAmount - 1)]),
   Obj([currentSavings |-> Num(0 - 1), currentNetWorth |-> Num(1)]),
   Obj([currentSavings |-> Num(1), currentNetWorth |-> Num(2)]),
   Obj([currentSavings |-> Str(<<120>>), currentNetWorth |-> Str(<<120>>)])}

TxnBody(type, amount) ==
  [type |-> Str(type), amount |-> Num(amount), description |-> Undef,
   category |-> Undef]

\* well-formed transaction bodies: every type, with the smallest amount and,
\* for the types that move both fields or are clamped, the largest
TxnBodies ==
  {TxnBody(t, 1) : t \in TxnTypes}
    \cup {TxnBody(TyExpense, MaxAmount), TxnBody(TySaving, MaxAmount)}

\* bodies the validation refuses: a missing or unknown type, and an amount
\* that is missing, zero, negative or not a number
BadTxnBodies ==
  [type : {Undef, Str(<<120>>)}, amount : {Num(1)},
   description : {Undef}, category : {Undef}]
    \cup
  [type : {Str(TyIncome)}, amount : {Undef, Num(0), Num(0 - 1), Str(<<53>>)},
   description : {Undef}, category : {Undef}]

InitTxn == Init /\ geminiKey = FALSE

NextTxn ==
  \/ Signup(TxnSignup, 0)
  \/ \E updates \in TxnUpdates : UpdateProfile(HdrA, updates, 0)
  \/ \E body \in TxnBodies : PostTransactions(HdrA, body, 0, 0)
  \/ \E body \in BadTxnBodies : PostTransactions(HdrA, body, 0, 0)
  \/ \E fail \in 1..4 :
       PostTransactions(HdrA, TxnBody(TySaving, 1), 0, fail)
  \/ \E fail \in Fails(1) : GetTransactions(HdrA, fail)
  \/ \E h \in BadHeaders : PostTransactions(h, TxnBody(TySaving, 1), 0, 0)

SpecTxn == InitTxn /\ [][NextTxn]_vars

\* the identity a served request was authenticated as
Requester(r) == UserIdOf(r.req.header)

\* a transaction request of the given type was answered with success
TxnDone(r, type) ==
  /\ r.op = "postTransactions" /\ r.status = 200
  /\ r.req.txn.type = Str(type)

\* a stored money field that is a number or missing (missing counts as 0)
Plain(v) == v.k \in {"num", "undef"}
PlainValue(v) == IF v.k = "num" THEN v.n ELSE 0

C4_ExpenseClamped ==
  [][(/\ TxnDone(resp', TyExpense)
      /\ Plain(UserOrEmpty(Requester(resp'))["currentNetWorth"])
      /\ Plain(UserOrEmpty(Requester(resp'))["currentSavings"]))
     => LET id == Requester(resp')
            A == resp'.req.txn.amount.n
            before == UserOrEmpty(id)
        IN /\ A > 0
           /\ users'[id]["currentNetWorth"]
                = Num(Max(0, PlainValue(before["currentNetWorth"]) - A))
           /\ users'[id]["currentSavings"].k = "num"
           /\ users'[id]["currentSavings"].n >= PlainValue(before["currentSavings"])]_vars

\* an expense larger than the net worth was clamped to 0 after an income
\* had been stored
C4_Witness ==
  /\ TxnDone(resp, TyExpense)
  /\ resp.out.newNetWorth = Num(0)
  /\ resp.req.txn.amount.n = MaxAmount
  /\ Len(txns[Requester(resp)]) = 2
  /\ txns[Requester(resp)][1].type = Str(TyIncome)
  /\ txns[Requester(resp)][1].amount = Num(1)

\* the list stored for id in the transactions map m
StoredList(m, id) == IF Has(m, id) THEN m[id] ELSE <<>>

SignupOf(e) == [email |-> Str(e), password |-> Str(PwP), name |-> Str(NameN)]

\* a store of MaxBoard onboarded users c1, c2, ..., each the record that a
\* sign-up followed by the onboarding profile update leaves, with xpLevel
\* between 1 and MaxXp
BigEmail(i) == <<99>> \o Digits(i)
BigUser(i) ==
  Merged(NewUser(SignupOf(BigEmail(i)), 0),
         Obj([isOnboarded |-> Bool(TRUE), xpLevel |-> Num(1 + (i % MaxXp))]), 0)
BigKeys == {BigEmail(i) : i \in 1..MaxBoard}
BigStore == [key \in BigKeys |-> BigUser(CHOOSE i \in 1..MaxBoard : BigEmail(i) = key)]
BigUp == [i \in 1..MaxBoard |-> BigEmail(i)]
BigDown == [i \in 1..MaxBoard |-> BigEmail(MaxBoard + 1 - i)]

\* the orders in which the prefix scan may return the users: every order of
\* a small store; for the large store, its users ascending or descending with
\* the other users in front or behind
SmallOrders(keys) ==
  {o \in [1..Cardinality(keys) -> keys] :
     \A i, j \in 1..Cardinality(keys) : i # j => o[i] # o[j]}
FrontOrders == UNION {SmallOrders(keys) : keys \in SUBSET {EmA, EmB}}
BoardOrders ==
  FrontOrders \cup {o \o BigUp : o \in FrontOrders}
              \cup {BigDown \o o : o \in FrontOrders}

\* profile updates of the leaderboard runs: onboarding with a low or a high
\* xpLevel, and an overwrite of the e-mail field
BoardUpdates ==
  {Obj([isOnboarded |-> Bool(TRUE), xpLevel |-> Num(0)]),
   Obj([isOnboarded |-> Bool(TRUE), xpLevel |-> Num(MaxXp + 1)]),
   Obj([email |-> Str(EmB)])}

InitBoard ==
  /\ Init /\ geminiKey = FALSE
InitBigBoard ==
  /\ users = BigStore
  /\ missions = <<>> /\ txns = <<>> /\ financial = <<>> /\ posts = <<>>
  /\ now = 0 /\ geminiKey = FALSE /\ resp = Idle
  /\ calls = NoCalls /\ client = FreshClient

NextBoard ==
  \/ \E e \in {EmA, EmB} : Signup(SignupOf(e), 0)
  \/ \E updates \in BoardUpdates : UpdateProfile(HdrA, updates, 0)
  \/ \E h \in {HdrA, HdrB}, order \in BoardOrders, fail \in Fails(1) :
       GetLeaderboard(h, order, fail)
  \/ \E h \in BadHeaders : GetLeaderboard(h, <<>>, 0)

SpecBoard == (InitBoard \/ InitBigBoard) /\ [][NextBoard]_vars

BoardDone(r) == r.op = "getLeaderboard" /\ r.status = 200

Flagged(board) == {i \in 1..Len(board) : board[i].isCurrentUser}

\* the stored records the leaderboard lists that carry the e-mail id
ListedAs(id) ==
  {key \in DOMAIN users : Listed(users[key]) /\ users[key]["email"] = Str(id)}
AllListed == {key \in DOMAIN users : Listed(users[key])}

Sorted(board) ==
  \A i, j \in 1..Len(board) : i < j => board[i].xp >= board[j].xp

FriendUsers == {EmA, EmB, EmAColonB}
\* the token each user is issued at sign-up or login
FriendHeader == [e \in FriendUsers |-> TokenHeader(e)]

NextFriends ==
  \/ \E e \in FriendUsers : Signup(SignupOf(e), 0)
  \/ \E e \in FriendUsers, f \in FriendUsers : FriendsAdd(FriendHeader[e], Str(f), 0)
  \/ \E fail \in 1..5 : FriendsAdd(HdrA, Str(EmB), fail)
  \/ \E e \in FriendUsers : GetFriends(FriendHeader[e], 0)
  \/ \E fail \in 1..2 : GetFriends(HdrA, fail)
  \/ \E h \in BadHeaders : FriendsAdd(h, Str(EmB), 0) \/ GetFriends(h, 0)

SpecFriends == InitBoard /\ [][NextFriends]_vars

\* the e-mails of the entries of a GET /friends answer
EmailsIn(friends) == {friends[i].email : i \in 1..Len(friends)}

\* what GET /friends answers, over the store m, to the holder of the token
\* issued to e
FriendsFor(m, e) == FriendsList(m, UserIdOf(FriendHeader[e]))

\* C8: after POST /friends/add {friendEmail: B} succeeded for a signed-up
\* user A presenting the token issued to A, GET /friends for A contains B
\* and GET /friends for B contains A.
C8_FriendsSymmetric ==
  [][\A A \in FriendUsers :
       (/\ resp'.op = "friendsAdd" /\ resp'.status = 200
        /\ Has(users, A)
        /\ resp'.req.header = FriendHeader[A])
       => /\ resp'.req.friendEmail \in EmailsIn(FriendsFor(users', A))
          /\ Str(A) \in EmailsIn(FriendsFor(users', resp'.req.friendEmail.s))]_vars

(***************************************************************************)
(* Mission generation                                                      *)
(***************************************************************************)
\* elements of a parsed AI array: an object with no usable field, an object
\* with its own id and xp, and null
AiBare == [isNull |-> FALSE, obj |-> Mission(<<>>)]
AiFull == [isNull |-> FALSE, obj |-> Mission([id |-> Str(<<120>>), xp |-> Num(1)])]
AiNull == [isNull |-> TRUE, obj |-> Mission(<<>>)]

\* the answers of the AI collaborator: the three failures, arrays of bare
\* elements of every length up to MaxAiLen, and arrays of one and of five
\* elements with a full element in front or a null at the end
AiAnswers ==
  {[kind |-> k, items |-> <<>>] : k \in {"throws", "noArray", "badJson"}}
    \cup {[kind |-> "array", items |-> [i \in 1..n |-> AiBare]] : n \in 0..MaxAiLen}
    \cup {[kind |-> "array", items |-> [i \in 1..n |-> IF i = 1 THEN AiFull ELSE AiBare]] :
            n \in {1, 5}}
    \cup {[kind |-> "array", items |-> [i \in 1..n |-> IF i = n THEN AiNull ELSE AiBare]] :
            n \in {1, 5}}

MissionUpdates ==
  {Obj([monthlyIncome |-> Num(MaxAmount), interests |-> List(<<Str(TxtBusiness)>>)])}

NextMissions ==
  \/ Signup(SignupOf(EmA), 0)
  \/ \E updates \in MissionUpdates : UpdateProfile(HdrA, updates, 0)
  \/ \E ai \in AiAnswers : MissionsGenerate(HdrA, ai, 0, 0)
  \/ \E fail \in 1..2, fail2 \in 0..2 :
       MissionsGenerate(HdrA, [kind |-> "throws", items |-> <<>>], fail, fail2)
  \/ \E fail \in 0..1 : GetMissions(HdrA, fail)
  \/ \E h \in BadHeaders :
       MissionsGenerate(h, [kind |-> "throws", items |-> <<>>], 0, 0) \/ GetMissions(h, 0)
  \/ Tick

SpecMissions == Init /\ [][NextMissions]_vars

\* the fields the handler promises on every mission it returns
RequiredFields == MissionFields \ {"completedAt"}
WellFormed(m) == \A f \in RequiredFields : m[f].k # "undef"

\* C7: every successful POST /missions/generate returns exactly 5 missions,
\* each with every required field present, whatever the AI collaborator
\* answered and whether or not a KV operation failed.
C7_FiveMissions ==
  (resp.op = "missionsGenerate" /\ resp.status = 200) =>
    /\ Len(resp.out.missions) = 5
    /\ \A i \in 1..Len(resp.out.missions) : WellFormed(resp.out.missions[i])

(***************************************************************************)
(* The auth prologue of the protected handlers                             *)
(***************************************************************************)
ProtectedOps ==
  {"getProfile", "updateProfile", "getMissions", "postMissions",
   "missionsComplete", "postFinancial", "getFinancial", "getPosts",
   "createPost", "getLeaderboard", "missionsGenerate", "friendsAdd",
   "getFriends", "usersSearch", "postTransactions", "getTransactions"}

GateUpdate == Obj([isOnboarded |-> Bool(TRUE)])
GateAi == [kind |-> "throws", items |-> <<>>]
GateMission == Str(<<109>>)
GateMetrics == [f \in FinancialFields |-> Num(1)]
GateTxn == TxnBody(TyIncome, 1)

\* every protected handler with the header h; an accepted request completes
\* a mission or records a transaction only once
Protected(h) ==
  \/ GetProfile(h, 0)
  \/ UpdateProfile(h, GateUpdate, 0)
  \/ GetMissions(h, 0)
  \/ PostMissions(h, List(<<>>), 0)
  \/ /\ AuthStatus(h) = "ok" => ~Has(missions, UserIdOf(h))
     /\ MissionsComplete(h, GateMission, Num(1), 0)
  \/ PostFinancial(h, GateMetrics, 0)
  \/ GetFinancial(h, 0)
  \/ \E order \in Orders(posts) : GetPosts(h, order, 0)
  \/ CreatePost(h, Str(<<99>>), Undef, 0)
  \/ \E order \in Orders(users) : GetLeaderboard(h, order, 0)
  \/ MissionsGenerate(h, GateAi, 0, 0)
  \/ FriendsAdd(h, Str(EmA), 0)
  \/ GetFriends(h, 0)
  \/ \E order \in Orders(users) : UsersSearch(h, <<97, 97>>, order, 0)
  \/ /\ AuthStatus(h) = "ok" => ~Has(txns, UserIdOf(h))
     /\ PostTransactions(h, GateTxn, 0, 0)
  \/ GetTransactions(h, 0)

\* headers the prologue refuses: none, a scheme without a token, a token
\* that is not base64, and a token that decodes to an empty identity
GateHeaders ==
  {NoHeader, << <<1>> >>, Bearer(<<5>>), Bearer(Btoa(<<ChColon, 48>>))}

NextGate ==
  \/ Signup(SignupOf(EmA), 0)
  \/ Protected(HdrA)
  \/ \E h \in GateHeaders : Protected(h)

SpecGate == InitBoard /\ [][NextGate]_vars

\* C9: a protected handler answers 401 and makes no KV call, leaving the
\* store as it was, when the Authorization header is absent or carries no
\* token, and when the token does not decode to a non-empty identity.
C9_Unauthorized ==
  [][(resp'.op \in ProtectedOps /\ resp'.req.header \in GateHeaders)
       => /\ resp'.status = 401
          /\ resp'.kvOps = 0
          /\ store' = store]_vars

\* a request with a token that is not base64 was refused over a store that
\* holds a user, missions and transactions
C9_Witness ==
  /\ resp.op = "postTransactions"
  /\ resp.status = 401
  /\ resp.req.header = Bearer(<<5>>)
  /\ Has(users, EmA) /\ Has(missions, EmA) /\ Has(txns, EmA)

(***************************************************************************)
(* Key namespacing                                                         *)
(***************************************************************************)
KeyUsers == {EmA, EmAColonB}
\* the header carrying the token sign-up or login issues to each e-mail
IssuedHeader == [e \in KeyUsers |-> TokenHeader(e)]

\* the routes that read or write missions:, transactions: or financial: keys
NamespacedOps ==
  {"getMissions", "postMissions", "missionsComplete", "missionsGenerate",
   "postFinancial", "getFinancial", "postTransactions", "getTransactions"}

Namespaced(h) ==
  \/ GetMissions(h, 0)
  \/ PostMissions(h, List(<<>>), 0)
  \/ /\ AuthStatus(h) = "ok" => ~Has(missions, UserIdOf(h))
     /\ MissionsComplete(h, GateMission, Num(1), 0)
  \/ MissionsGenerate(h, GateAi, 0, 0)
  \/ PostFinancial(h, GateMetrics, 0)
  \/ GetFinancial(h, 0)
  \/ /\ AuthStatus(h) = "ok" => ~Has(txns, UserIdOf(h))
     /\ PostTransactions(h, GateTxn, 0, 0)
  \/ GetTransactions(h, 0)

NextKeys ==
  \/ \E e \in KeyUsers : Signup(SignupOf(e), 0)
  \/ \E e \in KeyUsers : Namespaced(IssuedHeader[e])
  \/ Namespaced(NoHeader)

SpecKeys == InitBoard /\ [][NextKeys]_vars

\* the entry of the key-value map m under key is the same before and after
KeptAt(m, m2, key) ==
  /\ Has(m, key) <=> Has(m2, key)
  /\ Has(m, key) => m2[key] = m[key]

\* the keys of the three namespaces, before or after the step
NamespaceKeys ==
  DOMAIN missions \cup DOMAIN txns \cup DOMAIN financial
    \cup DOMAIN missions' \cup DOMAIN txns' \cup DOMAIN financial'

\* what a read of the three namespaces under the suffix E answers
ReadsOwn(r, E) ==
  /\ r.op = "getMissions" => r.out.data = MissionsOrDefault(E)
  /\ r.op = "getTransactions" => r.out.transactions = TxnsOrEmpty(E)
  /\ r.op = "getFinancial" =>
       /\ r.out.found = Has(financial, E)
       /\ Has(financial, E) => r.out.data = financial[E]

\* C11: a request bearing the token issued to the registered e-mail E reads
\* and writes missions:, transactions: and financial: keys with the suffix E
\* only: every key with another suffix is left as it was, and what a read
\* answers is the content stored under E.
C11_OwnKeysOnly ==
  [][\A E \in KeyUsers :
       (/\ Has(users, E)
        /\ resp'.op \in NamespacedOps
        /\ resp'.status = 200
        /\ resp'.req.header = IssuedHeader[E])
       => /\ \A key \in NamespaceKeys \ {E} :
               /\ KeptAt(missions, missions', key)
               /\ KeptAt(txns, txns', key)
               /\ KeptAt(financial, financial', key)
          /\ ReadsOwn(resp', E)]_vars

(***************************************************************************)
(* Mission completion                                                      *)
(***************************************************************************)
\* two stored missions, open, with distinct ids
MissionM == Mission([id |-> Str(<<109>>), title |-> Str(TxtMission),
                     xp |-> Num(DefaultXp), completed |-> Bool(FALSE)])
MissionN == Mission([id |-> Str(<<110>>), title |-> Str(TxtMission),
                     xp |-> Num(DefaultXp), completed |-> Bool(FALSE)])
\* the lists POST /missions receives: distinct ids, and one id twice
PostedLists == {List(<<MissionM, MissionN>>), List(<<MissionM, MissionN, MissionM>>)}
\* ids a completion names: one of a stored mission and one that is not stored
CompletedIds == {Str(<<109>>), Str(<<122>>)}
\* the xpEarned of the body: positive, negative, and absent
EarnedValues == {Num(1), Num(0 - 1), Undef}
\* a profile update that stores xpLevel as text
TextXpUpdate == Obj([xpLevel |-> Str(<<53>>)])

\* the accepted requests stay within the bounds on the counters
CompleteBound(h) ==
  AuthStatus(h) = "ok" =>
    LET xp == UserOrEmpty(UserIdOf(h))["xpLevel"]
        done == MissionsOrDefault(UserIdOf(h)).completedToday
    IN /\ done.k = "num" => done.n < MaxDone
       /\ xp.k = "num" => (xp.n < MaxXp /\ xp.n > 0 - MaxXp)
       /\ xp.k = "str" => Len(xp.s) < 2

NextComplete ==
  \/ Signup(SignupOf(EmA), 0)
  \/ UpdateProfile(HdrA, TextXpUpdate, 0)
  \/ \E list \in PostedLists : PostMissions(HdrA, list, 0)
  \/ \E fail \in 0..1 : PostMissions(HdrA, Undef, fail)
  \/ \E id \in CompletedIds, xpEarned \in EarnedValues :
       CompleteBound(HdrA) /\ MissionsComplete(HdrA, id, xpEarned, 0)
  \/ \E fail \in 1..4 :
       CompleteBound(HdrA) /\ MissionsComplete(HdrA, Str(<<109>>), Num(1), fail)
  \/ \E h \in {HdrA, NoHeader} : GetMissions(h, 0)
  \/ /\ ~Has(txns, EmA)
     /\ PostTransactions(HdrA, GateTxn, 0, 0)

SpecComplete == InitBoard /\ [][NextComplete]_vars

\* C12: a step of any handler other than POST /update-profile leaves every
\* stored numeric (or absent) xpLevel a number that is not smaller.
C12_XpNeverDecreases ==
  [][resp'.op # "updateProfile" =>
       \A e \in DOMAIN users :
         users[e]["xpLevel"].k \in {"num", "undef"} =>
           /\ Has(users', e)
           /\ users'[e]["xpLevel"].k \in {"num", "undef"}
           /\ XpOf(users'[e]) >= XpOf(users[e])]_vars

(***************************************************************************)
(* Profile update                                                          *)
(***************************************************************************)
\* bodies of POST /update-profile: a new name, a body that carries its own
\* updatedAt, a null field with an overwrite of the e-mail field, and
\* onboarding
ProfileUpdates ==
  {Obj([name |-> Str(<<120>>)]),
   Obj([updatedAt |-> Str(<<117>>), xpLevel |-> Num(1)]),
   Obj([name |-> Null, email |-> Str(EmB)]),
   Obj([isOnboarded |-> Bool(TRUE), friends |-> List(<<>>)])}

NextProfile ==
  \/ \E e \in {EmA, EmB} : Signup(SignupOf(e), 0)
  \/ \E h \in {HdrA, HdrAColonB, NoHeader}, updates \in ProfileUpdates :
       UpdateProfile(h, updates, 0)
  \/ \E fail \in 1..3 : UpdateProfile(HdrA, Obj([name |-> Str(<<120>>)]), fail)
  \/ \E h \in {HdrA, NoHeader} : GetProfile(h, 0)
  \/ Tick

SpecProfile == InitBoard /\ [][NextProfile]_vars

\* C13: a successful POST /update-profile stores, under user:<authenticated
\* identity>, the body's value for every field the body carries and the
\* stored value for every other field, with updatedAt set to the server's
\* time whatever the body says; it answers the stored record and writes no
\* other key.
C13_ShallowMerge ==
  [][(resp'.op = "updateProfile" /\ resp'.status = 200) =>
       LET id == Requester(resp')
           body == resp'.req.updates
           old == IF Has(users, id) THEN users[id] ELSE EmptyObj
       IN /\ Has(users', id)
          /\ \A f \in UserFields \ {"updatedAt"} :
               users'[id][f] = IF body[f].k # "undef" THEN body[f] ELSE old[f]
          /\ users'[id]["updatedAt"] = IsoString(now)
          /\ resp'.out.userData = users'[id]
          /\ \A key \in (DOMAIN users \cup DOMAIN users') \ {id} :
               KeptAt(users, users', key)
          /\ UNCHANGED <<missions, txns, financial, posts>>
          /\ \A E \in {EmA, EmB} : resp'.req.header = TokenHeader(E) => id = E]_vars

\* an update whose body carried its own updatedAt was stored with the
\* server's time, the signed-up fields kept, next to another user's record
C13_Witness ==
  /\ resp.op = "updateProfile" /\ resp.status = 200
  /\ resp.req.updates["updatedAt"] = Str(<<117>>)
  /\ users[Requester(resp)]["updatedAt"] = IsoString(now)
  /\ users[Requester(resp)]["xpLevel"] = Num(1)
  /\ users[Requester(resp)]["email"].k = "str"
  /\ Cardinality(DOMAIN users) > 1

(***************************************************************************)
(* Mission completion                                                      *)
(***************************************************************************)
\* the stored list of missions:<id>, empty when the key is absent
ListBefore(id) == IF Has(missions, id) THEN missions[id].missions.s ELSE <<>>

\* the effect of a successful completion on the missions entry: a stored
\* mission with the id is marked and nothing else changes, otherwise one
\* completed stub is appended; completedToday is one larger
CompleteEffect(id, missionId) ==
  LET before == ListBefore(id)
      after == missions'[id].missions.s
      n == Len(before)
      done == IF Has(missions, id) THEN missions[id].completedToday ELSE Num(0)
  IN /\ Has(missions', id)
     /\ (\E i \in 1..n : before[i]["id"] = missionId) =>
          /\ Len(after) = n
          /\ \E i \in 1..n :
               /\ before[i]["id"] = missionId
               /\ after[i]["completed"] = Bool(TRUE)
               /\ \A f \in MissionFields \ {"completed"} : after[i][f] = before[i][f]
               /\ \A j \in (1..n) \ {i} : after[j] = before[j]
     /\ (\A i \in 1..n : before[i]["id"] # missionId) =>
          /\ Len(after) = n + 1
          /\ SubSeq(after, 1, n) = before
          /\ after[n + 1]["id"] = missionId
          /\ after[n + 1]["completed"] = Bool(TRUE)
     /\ missions'[id].completedToday = Num(done.n + 1)

\* the stored xpLevel as a number, 0 when absent
XpBefore(id) ==
  IF Has(users, id) /\ users[id]["xpLevel"].k = "num" THEN users[id]["xpLevel"].n ELSE 0

HugeBodies ==
  {[type |-> Str(t), amount |-> Infinity, description |-> Undef,
    category |-> Undef] : t \in {TyIncome, TyExpense, TySaving}}

NextAmount ==
  \/ Signup(TxnSignup, 0)
  \/ \E body \in TxnBodies \cup HugeBodies : PostTransactions(HdrA, body, 0, 0)
  \/ \E body \in BadTxnBodies : PostTransactions(HdrA, body, 0, 0)
  \/ \E fail \in 1..4 : PostTransactions(HdrA, TxnBody(TySaving, 1), 0, fail)
  \/ \E h \in {HdrA, NoHeader} : GetTransactions(h, 0)

SpecAmount == InitTxn /\ [][NextAmount]_vars

\* C15: every entry of every stored transactions list has a type of the enum
\* and an amount that is a number greater than 0.
C15_StoredAmountsPositive ==
  \A id \in DOMAIN txns : \A i \in 1..Len(txns[id]) :
    /\ txns[id][i].type.k = "str" /\ txns[id][i].type.s \in TxnTypes
    /\ txns[id][i].amount.k = "num" /\ txns[id][i].amount.n > 0

(***************************************************************************)
(* Failures of the AI step                                                 *)
(***************************************************************************)
\* the failures of the AI step: the call throws (a network error or a
\* non-OK response), no bracketed array, a JSON parse error, an empty array
AiFailed(ai) ==
  \/ ai.kind \in {"throws", "noArray", "badJson"}
  \/ ai.kind = "array" /\ Len(ai.items) = 0

\* C16: with an AI key configured, a request whose AI step fails and whose
\* KV operations succeed is answered 200 with the five deterministic
\* missions built from the stored profile, each with completed = false, and
\* the same list is stored.
C16_AiFailureFallsBack ==
  [][(/\ resp'.op = "missionsGenerate"
      /\ geminiKey
      /\ AuthStatus(resp'.req.header) = "ok"
      /\ ~resp'.failed
      /\ AiFailed(resp'.req.ai))
     => LET id == Requester(resp')
            expected == DefaultMissions(UserOrEmpty(id), now)
            returned == resp'.out.missions
        IN /\ resp'.status = 200
           /\ Len(returned) = 5
           /\ \A i \in 1..5 :
                /\ returned[i]["completed"] = Bool(FALSE)
                /\ \A f \in MissionFields \ {"completed"} :
                     returned[i][f] = expected[i][f]
           /\ Has(missions', id)
           /\ missions'[id] = MissionsData(List(returned), Num(0), IsoString(now))]_vars

\* a request whose AI answer did not parse was answered with the defaults
\* personalised for a stored business goal
C16_Witness ==
  /\ resp.op = "missionsGenerate" /\ resp.status = 200
  /\ geminiKey
  /\ resp.req.ai.kind = "badJson"
  /\ Len(resp.out.missions) = 5
  /\ resp.out.missions[2]["description"] = Str(<<82, 50>>)
  /\ Has(missions, EmA)
  /\ missions[EmA].missions = List(resp.out.missions)

\* C17: after every successful POST /missions/generate the returned list is
\* the list stored under missions:<identity>, every item of it carries
\* completed = false, and the stored completedToday is 0.
C17_ReturnedIsStored ==
  (resp.op = "missionsGenerate" /\ resp.status = 200) =>
    LET id == Requester(resp) IN
      /\ Has(missions, id)
      /\ missions[id].missions = List(resp.out.missions)
      /\ \A i \in 1..Len(resp.out.missions) :
           resp.out.missions[i]["completed"] = Bool(FALSE)
      /\ missions[id].completedToday = Num(0)

\* C18: a request during which a KV operation failed is answered with status
\* 500 and the error envelope.
C18_KvFailureIs500 ==
  resp.failed => (resp.status = 500 /\ resp.err = "server")

(***************************************************************************)
(* Duplicates in the friends lists                                         *)
(***************************************************************************)
MaxFriends == 3

\* the friendEmail of the requests: the two users, an e-mail without a
\* profile, and the array ["b"], which the key template renders as b
DupTargets == {Str(EmA), Str(EmB), Str(<<122>>), List(<<Str(EmB)>>)}

\* the stored friends list of id stays within the bound
FriendsBound(id) ==
  LET friends == FriendsOf(UserOrEmpty(id)) IN
    friends.k = "list" => Len(friends.s) < MaxFriends

NextDup ==
  \/ \E e \in {EmA, EmB} : Signup(SignupOf(e), 0)
  \/ \E e \in {EmA, EmB}, f \in DupTargets :
       FriendsBound(e) /\ FriendsAdd(FriendHeader[e], f, 0)
  \/ \E fail \in 1..5 : FriendsBound(EmA) /\ FriendsAdd(HdrA, Str(EmB), fail)
  \/ \E h \in {HdrA, HdrB, NoHeader} : GetFriends(h, 0)

SpecDup == InitBoard /\ [][NextDup]_vars

\* C19: no stored friends list holds the same element twice.
C19_NoDuplicateFriends ==
  \A id \in DOMAIN users :
    LET friends == FriendsOf(users[id]) IN
      friends.k = "list" =>
        \A i \in 1..Len(friends.s), j \in 1..Len(friends.s) :
          i # j => friends.s[i] # friends.s[j]

(***************************************************************************)
(* Community posts                                                         *)
(***************************************************************************)
\* the content of the posts: two texts, a blank text and a missing one
PostContents == {Str(<<120>>), Str(<<121>>), Str(<<32>>), Undef}

NextPosts ==
  \/ Signup(SignupOf(EmA), 0)
  \/ \E h \in {HdrA, NoHeader}, content \in PostContents : CreatePost(h, content, Undef, 0)
  \/ \E fail \in 1..2 : CreatePost(HdrA, Str(<<120>>), Undef, fail)
  \/ \E order \in Orders(posts) : GetPosts(HdrA, order, 0)
  \/ Tick

SpecPosts == InitBoard /\ [][NextPosts]_vars

\* C20: a stored post is never overwritten or changed: every key of the
\* posts keeps its value in every step.
C20_PostsNeverOverwritten ==
  [][\A key \in DOMAIN posts : Has(posts', key) /\ posts'[key] = posts[key]]_vars

(***************************************************************************)
(* POST /transactions, one KV operation per step                           *)
(***************************************************************************)
\* the prologue and the validation: the request is accepted and waits for
\* its first KV read
TxnBegin(p, header, body) ==
  /\ calls[p].pc = "idle"
  /\ AuthStatus(header) = "ok"
  /\ ValidTxn(body)
  /\ calls' = [calls EXCEPT ![p] =
                 [pc |-> "getTxns", op |-> "postTransactions", status |-> 0,
                  header |-> header, body |-> body, entry |-> Undef,
                  list |-> <<>>, userData |-> EmptyObj]]
  /\ UNCHANGED <<users, missions, txns, financial, posts, now, geminiKey, resp, client>>

\* kv.get(transactions:<id>) resolves; the new entry is pushed on the copy
TxnGetList(p) ==
  /\ calls[p].pc = "getTxns"
  /\ LET entry == NewTransaction(calls[p].body, now, p) IN
       calls' = [calls EXCEPT ![p].pc = "setTxns", ![p].entry = entry,
                   ![p].list = AppendTxn(TxnsOrEmpty(UserIdOf(calls[p].header)), entry)]
  /\ UNCHANGED <<users, missions, txns, financial, posts, now, geminiKey, resp, client>>

\* kv.set(transactions:<id>, transactions)
TxnSetList(p) ==
  /\ calls[p].pc = "setTxns"
  /\ txns' = Put(txns, UserIdOf(calls[p].header), calls[p].list)
  /\ calls' = [calls EXCEPT ![p].pc = "getUser"]
  /\ UNCHANGED <<users, missions, financial, posts, now, geminiKey, resp, client>>

\* kv.get(user:<id>) resolves; the money fields are computed from it
TxnGetUser(p) ==
  /\ calls[p].pc = "getUser"
  /\ LET userData == UserOrEmpty(UserIdOf(calls[p].header)) IN
       calls' = [calls EXCEPT ![p].pc = "setUser",
                   ![p].userData = Spread(userData, MoneyAfter(userData, calls[p].body))]
  /\ UNCHANGED <<users, missions, txns, financial, posts, now, geminiKey, resp, client>>

\* kv.set(user:<id>, ...) and the success response
TxnSetUser(p) ==
  /\ calls[p].pc = "setUser"
  /\ users' = Put(users, UserIdOf(calls[p].header), calls[p].userData)
  /\ calls' = [calls EXCEPT ![p].pc = "done", ![p].status = 200]
  /\ UNCHANGED <<missions, txns, financial, posts, now, geminiKey, resp, client>>

\* the bodies of the two concurrent requests: amounts 1 and 2
RaceTypes == {TyIncome, TySaving}

NextRace ==
  \/ Signup(SignupOf(EmA), 0)
  \/ /\ \A p \in Procs : calls[p].pc = "idle"
     /\ ~Has(txns, EmA)
     /\ PostTransactions(HdrA, TxnBody(TyExpense, 1), 0, 0)
  \/ \E p \in Procs, t \in RaceTypes : TxnBegin(p, HdrA, TxnBody(t, p))
  \/ \E p \in Procs : TxnGetList(p)
  \/ \E p \in Procs : TxnSetList(p)
  \/ \E p \in Procs : TxnGetUser(p)
  \/ \E p \in Procs : TxnSetUser(p)
  \/ \E h \in {HdrA, NoHeader} : GetTransactions(h, 0)

SpecRace == InitBoard /\ [][NextRace]_vars

BothDone == \A p \in Procs : calls[p].pc = "done"

\* C21: when two concurrent POST /transactions of one user have both
\* answered success, the stored list ends with one of the two new entries
\* and holds, besides an earlier entry, one or both of them, and the stored
\* currentNetWorth reflects the amount of at least one of them; which of
\* them survives depends on the interleaving.
C21_RaceOutcome ==
  BothDone =>
    LET new == {calls[p].entry : p \in Procs}
        list == TxnsOrEmpty(EmA)
    IN /\ \A p \in Procs : calls[p].status = 200
       /\ Len(list) \in 1..3
       /\ list[Len(list)] \in new
       /\ \A i \in 1..Len(list) :
            list[i] \notin new => (i = 1 /\ list[i].type = Str(TyExpense))
       /\ Has(users, EmA)
       /\ users[EmA]["currentNetWorth"].k = "num"
       /\ users[EmA]["currentNetWorth"].n \in 1..3

\* both requests answered success, and the stored list holds one new entry
\* only and the net worth one amount only
C21_Witness ==
  /\ BothDone
  /\ \A p \in Procs : calls[p].status = 200
  /\ Len(TxnsOrEmpty(EmA)) = 1
  /\ users[EmA]["currentNetWorth"].n < 3

(***************************************************************************)
(* Sign-up followed by login                                               *)
(***************************************************************************)
\* C22: a successful sign-up stores the profile with isOnboarded = false; a
\* login that follows it with the same e-mail and password is answered 200
\* with a token and the stored profile; a login with both fields for an
\* e-mail without a stored profile is answered 401 (KV calls succeeding).
C22_SignupThenLogin ==
  [][/\ (resp'.op = "signup" /\ resp'.status = 200) =>
          /\ Has(users', resp'.req.body.email.s)
          /\ users'[resp'.req.body.email.s]["isOnboarded"] = Bool(FALSE)
     /\ (/\ resp'.op = "login" /\ ~resp'.failed
         /\ resp.op = "signup" /\ resp.status = 200
         /\ resp'.req.body.email = resp.req.body.email
         /\ resp'.req.body.password = resp.req.body.password) =>
          /\ resp'.status = 200
          /\ resp'.out.accessToken = GenerateToken(resp'.req.body.email.s, now)
          /\ resp'.out.userData = users[resp'.req.body.email.s]
          /\ resp'.out.userData["isOnboarded"] = Bool(FALSE)
     /\ (/\ resp'.op = "login" /\ ~resp'.failed
         /\ Truthy(resp'.req.body.email) /\ Truthy(resp'.req.body.password)
         /\ ~Has(users, resp'.req.body.email.s)) =>
          /\ resp'.status = 401
          /\ resp'.out = NoOut]_vars

\* a login was answered 200 with the profile exactly as the sign-up of an
\* e-mail holding a ':' stored it
C22_Witness ==
  /\ resp.op = "login" /\ resp.status = 200
  /\ resp.req.body.email = Str(EmAColonB)
  /\ resp.out.userData = NewUser([email |-> Str(EmAColonB),
                                  password |-> resp.req.body.password,
                                  name |-> Str(NameN)], 0)
  /\ resp.out.userData["isOnboarded"] = Bool(FALSE)

(***************************************************************************)
(* POST /signup, one KV operation per step                                 *)
(***************************************************************************)
\* the body was read and carries the three fields; the existence check is
\* about to be made
SignupBegin(p, body) ==
  /\ calls[p].pc = "idle"
  /\ Truthy(body.email) /\ Truthy(body.password) /\ Truthy(body.name)
  /\ calls' = [calls EXCEPT ![p] =
                 [pc |-> "check", op |-> "signup", status |-> 0, body |-> body,
                  token |-> <<>>]]
  /\ UNCHANGED <<users, missions, txns, financial, posts, now, geminiKey, resp, client>>

\* kv.get(`user:${email}`) resolves: 400 when a record exists
SignupCheck(p) ==
  /\ calls[p].pc = "check"
  /\ calls' = IF Has(users, calls[p].body.email.s)
              THEN [calls EXCEPT ![p].pc = "done", ![p].status = 400]
              ELSE [calls EXCEPT ![p].pc = "store"]
  /\ UNCHANGED <<users, missions, txns, financial, posts, now, geminiKey, resp, client>>

\* kv.set(`user:${email}`, {...}), then the token and the success response
SignupStore(p) ==
  /\ calls[p].pc = "store"
  /\ users' = SignupStored(users, calls[p].body, now)
  /\ calls' = IF GenerateTokenThrows(calls[p].body.email.s)
              THEN [calls EXCEPT ![p].pc = "done", ![p].status = 500]
              ELSE [calls EXCEPT ![p].pc = "done", ![p].status = 200,
                                 ![p].token = GenerateToken(calls[p].body.email.s, now)]
  /\ UNCHANGED <<missions, txns, financial, posts, now, geminiKey, resp, client>>

\* the sign-up request of slot p: its own password and name
RaceSignup(p, e) ==
  [email |-> Str(e), password |-> Str(IF p = 1 THEN PwP ELSE PwQ),
   name |-> Str(<<48 + p>>)]

NextSignupRace ==
  \/ \E p \in Procs, e \in {EmA, EmB} : SignupBegin(p, RaceSignup(p, e))
  \/ \E p \in Procs : SignupCheck(p)
  \/ \E p \in Procs : SignupStore(p)
  \/ \E e \in {EmA, EmB}, q \in AuthPasswords :
       Login([email |-> Str(e), password |-> Str(q)], 0)

SpecSignupRace == InitBoard /\ [][NextSignupRace]_vars

\* C23: the check and the write of sign-up are separate steps: a request
\* that passed the check writes its record whatever the key holds by then
\* and answers success with a token, so the stored password hash and name are
\* those of the request that wrote last.
C23_LastSignupWins ==
  [][\A p \in Procs :
       (calls[p].pc = "store" /\ calls'[p].pc = "done") =>
         LET body == calls[p].body IN
           /\ calls'[p].status = 200
           /\ VerifyToken(calls'[p].token) = body.email
           /\ Has(users', body.email.s)
           /\ users'[body.email.s]["password"] = Str(HashPassword(body.password.s))
           /\ users'[body.email.s]["name"] = body.name]_vars

\* two sign-ups for the same e-mail both answered success, and the record
\* holds the password hash and the name of the second slot
C23_Witness ==
  /\ \A p \in Procs : calls[p].pc = "done" /\ calls[p].status = 200
  /\ calls[1].body.email = calls[2].body.email
  /\ calls[1].body.password # calls[2].body.password
  /\ users[calls[1].body.email.s]["password"] = Str(HashPassword(PwQ))
  /\ users[calls[1].body.email.s]["name"] = calls[2].body.name

(***************************************************************************)
(* The client's onboarding completion                                      *)
(***************************************************************************)
\* handleSignup: the token of the sign-up response is kept and the client
\* moves to the onboarding screen
HandleSignup ==
  /\ client.screen = "auth"
  /\ resp.op = "signup" /\ resp.status = 200
  /\ client' = [client EXCEPT !.screen = "onboarding",
                              !.token = resp.out.accessToken]
  /\ UNCHANGED <<users, missions, txns, financial, posts, now, geminiKey, resp, calls>>

\* the data of the onboarding form with isOnboarded: true added
OnboardingData == Obj([targetAge |-> Num(1), isOnboarded |-> Bool(TRUE)])

\* handleOnboardingComplete up to its await: authFetch('/update-profile')
\* reaches the server, which serves the request
OnboardingSave(fail) ==
  /\ client.screen = "onboarding"
  /\ resp.op # "updateProfile"
  /\ UpdateProfile(Bearer(client.token), OnboardingData, fail)

\* after the await: a response that is not ok throws into the catch block,
\* which sets the local state and navigates exactly as the success path does
OnboardingSaved ==
  /\ client.screen = "onboarding"
  /\ resp.op = "updateProfile"
  /\ client' = IF resp.status = 200
               THEN [client EXCEPT !.isOnboarded = TRUE, !.screen = "dashboard"]
               ELSE [client EXCEPT !.isOnboarded = TRUE, !.screen = "dashboard"]
  /\ UNCHANGED <<users, missions, txns, financial, posts, now, geminiKey, resp, calls>>

\* fetch rejects (the network is down): the catch block runs and no request
\* reaches the server
OnboardingUnsent ==
  /\ client.screen = "onboarding"
  /\ resp.op # "updateProfile"
  /\ client' = [client EXCEPT !.isOnboarded = TRUE, !.screen = "dashboard"]
  /\ UNCHANGED <<users, missions, txns, financial, posts, now, geminiKey, resp, calls>>

NextClient ==
  \/ \E e \in {EmA, EmB, EmAColonB}, fail \in Fails(2) : Signup(SignupOf(e), fail)
  \/ HandleSignup
  \/ \E fail \in Fails(3) : OnboardingSave(fail)
  \/ OnboardingSaved
  \/ OnboardingUnsent
  \/ \E e \in {EmA, EmB} :
       Login([email |-> Str(e), password |-> Str(PwP)], 0)

SpecClient == InitBoard /\ [][NextClient]_vars

\* C24: the client's local userData becomes isOnboarded = true, and its
\* screen 'dashboard', only in a step that follows a POST /update-profile
\* answered with success.
C24_OnboardedOnlyAfterSave ==
  [][(\/ client'.isOnboarded /\ ~client.isOnboarded
      \/ client'.screen = "dashboard" /\ client.screen # "dashboard")
     => (resp.op = "updateProfile" /\ resp.status = 200)]_vars

(***************************************************************************)
(* POST /missions                                                          *)
(***************************************************************************)
\* C25: a successful POST /missions stores, under missions:<identity>, the
\* body's missions (the empty list when the body has none), completedToday 0
\* and the time of the request, whatever the entry held before; no other
\* missions entry and no user, transactions, financial or post entry changes.
C25_PostReplaces ==
  [][(resp'.op = "postMissions" /\ resp'.status = 200) =>
       LET id == Requester(resp')
           body == resp'.req.missions
       IN /\ Has(missions', id)
          /\ missions'[id].missions = IF body.k = "undef" THEN List(<<>>) ELSE body
          /\ missions'[id].completedToday = Num(0)
          /\ missions'[id].lastReset = IsoString(now)
          /\ DOMAIN missions' = DOMAIN missions \cup {id}
          /\ \A key \in DOMAIN missions \ {id} : missions'[key] = missions[key]
          /\ UNCHANGED <<users, txns, financial, posts>>]_vars

\* a list was posted over an entry that held a completion: the user has
\* earned xp, and the stored entry shows no completion
C25_Witness ==
  /\ resp.op = "postMissions" /\ resp.status = 200
  /\ Has(users, EmA) /\ users[EmA]["xpLevel"] = Num(1)
  /\ missions[EmA].completedToday = Num(0)
  /\ Len(missions[EmA].missions.s) = 2
  /\ \A i \in 1..2 : missions[EmA].missions.s[i]["completed"] = Bool(FALSE)

(***************************************************************************)
(* The GET handlers                                                        *)
(***************************************************************************)
GetOps ==
  {"health", "getProfile", "getMissions", "getTransactions", "getFinancial",
   "getFriends", "getLeaderboard", "usersSearch", "getPosts"}

\* every protected GET handler with the header h, the KV call fail failing
Reads(h, fail) ==
  \/ GetProfile(h, fail)
  \/ GetMissions(h, fail)
  \/ GetTransactions(h, fail)
  \/ GetFinancial(h, fail)
  \/ GetFriends(h, fail)
  \/ \E order \in Orders(users) : GetLeaderboard(h, order, fail)
  \/ \E order \in Orders(users) : UsersSearch(h, <<97>>, order, fail)
  \/ \E order \in Orders(posts) : GetPosts(h, order, fail)

\* the requests that fill the store of the user a, each made once
Fills ==
  \/ UpdateProfile(HdrA, GateUpdate, 0)
  \/ ~Has(missions, EmA) /\ PostMissions(HdrA, List(<<MissionM>>), 0)
  \/ ~Has(financial, EmA) /\ PostFinancial(HdrA, GateMetrics, 0)
  \/ posts = <<>> /\ CreatePost(HdrA, Str(<<99>>), Undef, 0)
  \/ FriendsAdd(HdrA, Str(EmB), 0)
  \/ ~Has(txns, EmA) /\ PostTransactions(HdrA, GateTxn, 0, 0)

NextReads ==
  \/ \E e \in {EmA, EmB} : Signup(SignupOf(e), 0)
  \/ Fills
  \/ \E h \in {HdrA, HdrB, NoHeader}, fail \in 0..1 : Reads(h, fail)
  \/ Health

SpecReads == InitBoard /\ [][NextReads]_vars

\* C26: a step of a GET handler leaves every KV entry as it was, and
\* GET /missions for an identity without an entry answers the empty default
\* (no missions, completedToday 0) while the entry stays absent.
C26_ReadsWriteNothing ==
  [][resp'.op \in GetOps =>
       /\ UNCHANGED <<users, missions, txns, financial, posts>>
       /\ (/\ resp'.op = "getMissions" /\ resp'.status = 200
           /\ ~Has(missions, Requester(resp'))) =>
            /\ resp'.out.data.missions = List(<<>>)
            /\ resp'.out.data.completedToday = Num(0)
            /\ ~Has(missions', Requester(resp'))]_vars

\* GET /missions answered the default for a user without an entry, over a
\* store that holds users, missions of another user, transactions and posts
C26_Witness ==
  /\ resp.op = "getMissions" /\ resp.status = 200
  /\ resp.req.header = HdrB
  /\ resp.out.data.missions = List(<<>>)
  /\ ~Has(missions, EmB) /\ Has(missions, EmA)
  /\ Has(users, EmA) /\ Has(users, EmB) /\ Has(txns, EmA) /\ posts # <<>>

(***************************************************************************)
(* The stored money fields                                                 *)
(***************************************************************************)
\* C27: after every successful POST /transactions the stored currentSavings
\* and currentNetWorth of the requester are both numbers that are at least 0.
C27_StoredMoneyNonNegative ==
  [][(/\ resp'.op = "postTransactions" /\ resp'.status = 200)
     => LET stored == users'[Requester(resp')]
        IN /\ stored["currentSavings"].k = "num"
           /\ stored["currentSavings"].n >= 0
           /\ stored["currentNetWorth"].k = "num"
           /\ stored["currentNetWorth"].n >= 0]_vars

(***************************************************************************)
(* Repeated completion of one mission                                      *)
(***************************************************************************)
\* the positions of the missions of a list that carry the id
WithId(list, missionId) == {i \in 1..Len(list) : list[i]["id"] = missionId}

\* completedToday of missions:<id>, 0 when the key is absent
DoneBefore(id) == IF Has(missions, id) THEN missions[id].completedToday.n ELSE 0

GuardedFields == {"email", "password", "xpLevel", "friends", "isOnboarded"}

\* bodies that carry one of the fields each, and one that carries all five
FieldUpdates ==
  {Obj([email |-> Str(EmB)]),
   Obj([password |-> Str(PwQ)]),
   Obj([xpLevel |-> Num(MaxXp)]),
   Obj([friends |-> List(<<Str(EmB)>>)]),
   Obj([isOnboarded |-> Bool(TRUE)]),
   Obj([email |-> Str(EmB), password |-> Str(PwQ), xpLevel |-> Num(1),
        friends |-> List(<<>>), isOnboarded |-> Bool(FALSE)])}

NextFields ==
  \/ \E e \in {EmA, EmB} : Signup(SignupOf(e), 0)
  \/ \E h \in {HdrA, NoHeader}, updates \in FieldUpdates :
       UpdateProfile(h, updates, 0)
  \/ \E fail \in 1..3 : UpdateProfile(HdrA, Obj([email |-> Str(EmB)]), fail)
  \/ UpdateProfile(HdrB, Obj([isOnboarded |-> Bool(TRUE)]), 0)
  \/ \E h \in {HdrA, NoHeader}, order \in Orders(users) :
       GetLeaderboard(h, order, 0)

SpecFields == InitBoard /\ [][NextFields]_vars

\* C29: a successful POST /update-profile stores the body's value of email,
\* password, xpLevel, friends and isOnboarded, whichever of them the body
\* carries, in place of the stored one.
C29_NoWhitelist ==
  [][(resp'.op = "updateProfile" /\ resp'.status = 200) =>
       \A f \in GuardedFields :
         resp'.req.updates[f].k # "undef" =>
           users'[Requester(resp')][f] = resp'.req.updates[f]]_vars

\* the record under user:a carries the e-mail of b, and the leaderboard
\* answered two entries with that e-mail
C29_Witness ==
  /\ BoardDone(resp)
  /\ Has(users, EmA) /\ users[EmA]["email"] = Str(EmB)
  /\ Len(resp.out.leaderboard) = 2
  /\ resp.out.leaderboard[1].email = Str(EmB)
  /\ resp.out.leaderboard[2].email = Str(EmB)

(***************************************************************************)
(* Tokens of identities without a profile                                  *)
(***************************************************************************)
\* bodies of POST /update-profile of the holder of such a token: a name,
\* onboarding, and a password digest
GhostUpdates ==
  {Obj([name |-> Str(<<120>>)]), Obj([isOnboarded |-> Bool(TRUE)]),
   Obj([password |-> Str(HashPassword(PwQ))])}

GhostSignup(pw) == [email |-> Str(EmB), password |-> Str(pw), name |-> Str(NameN)]
GhostLogin(pw) == [email |-> Str(EmB), password |-> Str(pw)]

\* b is not registered at the start and the requests carry a token of the
\* server's format for b
NextGhost ==
  \/ \E pw \in AuthPasswords, fail \in Fails(2) : Signup(GhostSignup(pw), fail)
  \/ \E pw \in AuthPasswords, fail \in Fails(1) : Login(GhostLogin(pw), fail)
  \/ \E h \in {HdrB, NoHeader}, updates \in GhostUpdates, fail \in Fails(3) :
       UpdateProfile(h, updates, fail)
  \/ /\ ~Has(txns, EmB)
     /\ PostTransactions(HdrB, GateTxn, 0, 0)
  \/ /\ ~Has(missions, EmB)
     /\ PostMissions(HdrB, List(<<MissionM>>), 0)

SpecGhost == InitBoard /\ [][NextGhost]_vars

GhostWrites == {"updateProfile", "postTransactions", "postMissions"}

\* C30: a write request with a decodable token is answered 200 whether or not
\* user:<identity> exists; POST /update-profile with a body without password
\* on an absent user:<E> creates it without a password; and while user:<E>
\* holds no password, sign-up for E is answered 400 and login for E 401,
\* whatever the password.
C30_GhostProfile ==
  [][/\ (/\ resp'.op \in GhostWrites
         /\ AuthStatus(resp'.req.header) = "ok"
         /\ ~resp'.failed) => resp'.status = 200
     /\ (/\ resp'.op = "updateProfile" /\ resp'.status = 200
         /\ ~Has(users, Requester(resp'))
         /\ resp'.req.updates["password"].k = "undef")
        => /\ Has(users', Requester(resp'))
           /\ users'[Requester(resp')]["password"] = Undef
     /\ \A e \in DOMAIN users :
          users[e]["password"].k = "undef" =>
            /\ (/\ resp'.op = "signup" /\ resp'.req.body.email = Str(e)
                /\ Truthy(resp'.req.body.password) /\ Truthy(resp'.req.body.name)
                /\ ~resp'.failed)
               => (resp'.status = 400 /\ resp'.err = "exists" /\ users' = users)
            /\ (/\ resp'.op = "login" /\ resp'.req.body.email = Str(e)
                /\ Truthy(resp'.req.body.password)
                /\ ~resp'.failed)
               => (resp'.status = 401 /\ resp'.err = "password")]_vars

\* the profile update of the unregistered b created user:b with a name and
\* no password, and the login of b was then answered 401
C30_Witness ==
  /\ resp.op = "login" /\ resp.status = 401 /\ resp.err = "password"
  /\ resp.req.body.email = Str(EmB)
  /\ Has(users, EmB)
  /\ users[EmB]["password"] = Undef
  /\ users[EmB]["email"] = Undef
  /\ users[EmB]["name"] = Str(<<120>>)

====
